---- MODULE Spec2Model ----
(***************************************************************************)
(* Model of the debugger-session subsystem of mcp-gdb: one GdbSession,     *)
(* its startup, its execute / execute_mi command pipelines, terminate, the *)
(* GDB subprocess it talks to and the timers of the event loop.            *)
(*                                                                         *)
(* Spec is the whole life of a session; PipeSpec is the command pipeline   *)
(* with two commands; LoopSpec is the read loop of one command with every  *)
(* line; TermSpec is the start and the end of a session without commands;  *)
(* RegSpec is the session manager with the first session it creates.  A    *)
(* read or a write of a stream can fail with any error GLib reports, among *)
(* them an operation already pending on the stream.                        *)
(*                                                                         *)
(* Text is a sequence of one-character strings; a line of subprocess       *)
(* output is such a sequence without its newline.                          *)
(***************************************************************************)
EXTENDS Bags, Integers, Sequences, FiniteSets, TLC

(***************************************************************************)
(* Bounds of the model.                                                    *)
(***************************************************************************)
MaxCmds == 2        \* execute / execute_mi submissions (PipeSpec)
MaxLines == 3       \* lines the commands read (PipeSpec)
LifeCmds == 1       \* execute / execute_mi submissions (Spec)
LifeLines == 2      \* lines the commands read (Spec)
LoopLines == 4      \* lines the command reads (LoopSpec)
MaxTerminate == 1   \* calls of gdb_session_terminate (Spec)
MaxStartCalls == 2  \* calls of gdb_session_start_async (Spec, TermSpec)
MaxTermCalls == 2   \* calls of gdb_session_terminate (TermSpec)
MaxCreates == 2     \* calls of gdb_session_manager_create_session (RegSpec)
MaxMgrCalls == 2    \* other calls of the manager (RegSpec)
MaxClock == 1       \* values of the clock that create_session reads (RegSpec)
MaxEnvLen == 2      \* characters of GDB_MCP_POST_COMMAND_DELAY_MS (DelaySpec)
MaxToolCalls == 2   \* calls of the tools that take a sessionId (ToolSpec)
MaxOwners == 2      \* references on the session held by its owners (RefSpec)

(***************************************************************************)
(* Program constants.                                                      *)
(***************************************************************************)
DEFAULT_TIMEOUT_MS == 10000
DEFAULT_POST_COMMAND_DELAY_MS == 2000
TERMINATE_TIMEOUT_MS == 500

\* The granularity of the model's clock: the smallest timer interval.
TickMs == TERMINATE_TIMEOUT_MS

NULL == "NULL"
NUL == "NUL"        \* the byte 0, which ends a C string

\* The NULL pointer where a string (a sequence of characters) is expected,
\* and the text of a string literal of the source.
NULL_STR == <<NULL>>

Literal(text) == <<text>>

(***************************************************************************)
(* Characters and C string helpers.                                        *)
(***************************************************************************)
Digits == <<"0", "1", "2", "3", "4", "5", "6", "7", "8", "9">>

DigitChars == {Digits[i] : i \in 1..10}

AlphaChars ==
    {"a", "b", "c", "d", "e", "f", "g", "h", "i", "j", "k", "l", "m",
     "n", "o", "p", "q", "r", "s", "t", "u", "v", "w", "x", "y", "z",
     "A", "B", "C", "D", "E", "F", "G", "H", "I", "J", "K", "L", "M",
     "N", "O", "P", "Q", "R", "S", "T", "U", "V", "W", "X", "Y", "Z"}

g_ascii_isdigit(c) == c \in DigitChars

g_ascii_isalnum(c) == c \in DigitChars \cup AlphaChars

g_ascii_isspace(c) == c \in {" ", "\t", "\n", "\r", "\f"}

\* *p for a pointer at index i of the NUL-terminated string s.
At(s, i) == IF i >= 1 /\ i <= Len(s) THEN s[i] ELSE NUL

g_str_has_prefix(s, prefix) ==
    /\ Len(s) >= Len(prefix)
    /\ SubSeq(s, 1, Len(prefix)) = prefix

RECURSIVE skip_whitespace(_, _)
skip_whitespace(s, i) ==
    IF At(s, i) # NUL /\ g_ascii_isspace(At(s, i))
    THEN skip_whitespace(s, i + 1)
    ELSE i

STR_PROMPT == <<"(", "g", "d", "b", ")">>

gdb_mi_parser_is_prompt(line) ==
    LET i == skip_whitespace(line, 1)
        rest == SubSeq(line, i, Len(line))
    IN  \/ rest = STR_PROMPT
        \/ g_str_has_prefix(rest, STR_PROMPT \o <<" ">>)

(***************************************************************************)
(* The MI line parser, for the records the pipelines look at.  A parse     *)
(* position is an index into the line; a parse result carries the position *)
(* after the parsed text.  The lines of the model hold no '{' and no '[',  *)
(* so a value is a quoted string or a parse error.                         *)
(***************************************************************************)
RECURSIVE parse_c_string_loop(_, _, _)
parse_c_string_loop(s, i, str) ==
    LET c == At(s, i)
        n == At(s, i + 1)
    IN  IF c = NUL \/ c = "\""
        THEN [pos |-> IF c = "\"" THEN i + 1 ELSE i, str |-> str]
        ELSE IF c = "\\" /\ n # NUL
        THEN parse_c_string_loop(s, i + 2,
                 Append(str, CASE n = "n" -> "\n"
                               [] n = "t" -> "\t"
                               [] n = "r" -> "\r"
                               [] OTHER -> n))
        ELSE parse_c_string_loop(s, i + 1, Append(str, c))

parse_c_string(s, i) ==
    IF At(s, i) # "\""
    THEN [ok |-> FALSE, pos |-> i, str |-> <<>>]
    ELSE LET Parsed(r) == [ok |-> TRUE, pos |-> r.pos, str |-> r.str]
         IN  Parsed(parse_c_string_loop(s, i + 1, <<>>))

IsNameChar(c) == g_ascii_isalnum(c) \/ c = "_" \/ c = "-"

RECURSIVE SkipNameChars(_, _)
SkipNameChars(s, i) ==
    IF At(s, i) # NUL /\ IsNameChar(At(s, i)) THEN SkipNameChars(s, i + 1) ELSE i

parse_variable(s, i) ==
    LET j == SkipNameChars(s, i)
    IN  [ok |-> j # i, pos |-> j, name |-> SubSeq(s, i, j - 1)]

parse_value(s, i) ==
    LET j == skip_whitespace(s, i)
    IN  IF At(s, j) = "\""
        THEN parse_c_string(s, j)
        ELSE [ok |-> FALSE, pos |-> j, str |-> <<>>]

\* json_object_set_member: a member of that name is replaced.
SetMember(obj, name, val) ==
    IF \E k \in 1..Len(obj) : obj[k].name = name
    THEN [k \in 1..Len(obj) |->
             IF obj[k].name = name THEN [name |-> name, val |-> val] ELSE obj[k]]
    ELSE Append(obj, [name |-> name, val |-> val])

parse_result(s, i, obj) ==
    LET Result(v, e, x) ==
            IF ~v.ok \/ At(s, e) # "=" \/ ~x.ok
            THEN [ok |-> FALSE, pos |-> i, obj |-> obj]
            ELSE [ok |-> TRUE, pos |-> x.pos,
                  obj |-> SetMember(obj, v.name, x.str)]
        Value(v, e) == Result(v, e, parse_value(s, skip_whitespace(s, e + 1)))
        Variable(v) == Value(v, skip_whitespace(s, v.pos))
    IN  Variable(parse_variable(s, skip_whitespace(s, i)))

RECURSIVE parse_results_loop(_, _, _)
parse_results_loop(s, i, obj) ==
    IF At(s, i) = NUL \/ At(s, i) = "\n"
    THEN [ok |-> TRUE, obj |-> obj]
    ELSE LET After(r, j) ==
                 IF ~r.ok THEN [ok |-> FALSE, obj |-> <<>>]
                 ELSE IF At(s, j) = "," THEN parse_results_loop(s, j + 1, r.obj)
                 ELSE [ok |-> TRUE, obj |-> r.obj]
             Result(r) == After(r, skip_whitespace(s, r.pos))
         IN  Result(parse_result(s, i, obj))

parse_results(s, i) ==
    LET j == skip_whitespace(s, i)
    IN  IF At(s, j) = NUL \/ At(s, j) = "\n"
        THEN [ok |-> TRUE, obj |-> <<>>]
        ELSE parse_results_loop(s, IF At(s, j) = "," THEN j + 1 ELSE j, <<>>)

gdb_mi_record_type_from_char(c) ==
    CASE c = "^" -> "RESULT"
      [] c = "*" -> "EXEC_ASYNC"
      [] c = "+" -> "STATUS_ASYNC"
      [] c = "=" -> "NOTIFY_ASYNC"
      [] c = "~" -> "CONSOLE"
      [] c = "@" -> "TARGET"
      [] c = "&" -> "LOG"
      [] OTHER -> "UNKNOWN"

\* The words of the MI grammar the code compares with.
STR ==
    [done |-> <<"d", "o", "n", "e">>,
     running |-> <<"r", "u", "n", "n", "i", "n", "g">>,
     connected |-> <<"c", "o", "n", "n", "e", "c", "t", "e", "d">>,
     error |-> <<"e", "r", "r", "o", "r">>,
     exit |-> <<"e", "x", "i", "t">>,
     stopped |-> <<"s", "t", "o", "p", "p", "e", "d">>,
     msg |-> <<"m", "s", "g">>]

gdb_mi_result_class_from_string(str) ==
    CASE str = STR.done -> "DONE"
      [] str = STR.running -> "RUNNING"
      [] str = STR.connected -> "CONNECTED"
      [] str = STR.error -> "ERROR"
      [] str = STR.exit -> "EXIT"
      [] OTHER -> "ERROR"

RECURSIVE SkipDigits(_, _)
SkipDigits(s, i) ==
    IF g_ascii_isdigit(At(s, i)) THEN SkipDigits(s, i + 1) ELSE i

NoRecord == [ok |-> FALSE, type |-> "UNKNOWN", class_name |-> <<>>,
             result_class |-> NULL, results |-> <<>>, stream_content |-> <<>>]

\* The record of a line, or NoRecord (NULL with a ParseError).
gdb_mi_parser_parse_line(line) ==
    IF gdb_mi_parser_is_prompt(line)
    THEN [NoRecord EXCEPT !.ok = TRUE, !.type = "PROMPT"]
    ELSE
    LET Record(p, type, class, res, cstr) ==
            IF type = "UNKNOWN" THEN NoRecord
            ELSE IF type \in {"CONSOLE", "TARGET", "LOG"}
            THEN IF At(line, p + 1) = "\""
                 THEN [NoRecord EXCEPT !.ok = cstr.ok, !.type = type,
                                       !.stream_content = cstr.str]
                 ELSE [NoRecord EXCEPT !.ok = TRUE, !.type = type,
                           !.stream_content = SubSeq(line, p + 1, Len(line))]
            ELSE IF ~res.ok THEN NoRecord
            ELSE [ok |-> TRUE, type |-> type, class_name |-> class,
                  result_class |-> IF type = "RESULT"
                                   THEN gdb_mi_result_class_from_string(class)
                                   ELSE NULL,
                  results |-> res.obj, stream_content |-> <<>>]
        Class(p, q) ==
            Record(p, gdb_mi_record_type_from_char(At(line, p)),
                   SubSeq(line, p + 1, q - 1),
                   IF At(line, q) = "," \/ At(line, q) = " "
                   THEN parse_results(line, q)
                   ELSE [ok |-> TRUE, obj |-> <<>>],
                   parse_c_string(line, p + 1))
        Token(p) == Class(p, SkipNameChars(line, p + 1))
    IN  Token(SkipDigits(line, 1))

\* gdb_mi_parser_unescape_string: the bytes of the GString it returns.  str
\* is read from index p up to index end, exclusive.
RECURSIVE unescape_string_loop(_, _, _, _)
unescape_string_loop(str, p, end, result) ==
    IF p >= end THEN result
    ELSE IF str[p] = "\\" /\ p + 1 < end
    THEN unescape_string_loop(str, p + 2, end,
             result \o CASE str[p + 1] = "n" -> <<"\n">>
                         [] str[p + 1] = "t" -> <<"\t">>
                         [] str[p + 1] = "r" -> <<"\r">>
                         [] str[p + 1] = "\\" -> <<"\\">>
                         [] str[p + 1] = "\"" -> <<"\"">>
                         [] str[p + 1] = "0" -> <<NUL>>
                         [] OTHER -> <<"\\", str[p + 1]>>)
    ELSE unescape_string_loop(str, p + 1, end, Append(result, str[p]))

gdb_mi_parser_unescape_string(str) ==
    IF str = NULL_STR THEN <<>>
    ELSE LET len == Len(str)
             quoted == len >= 2 /\ str[1] = "\"" /\ str[len] = "\""
         IN  unescape_string_loop(str, IF quoted THEN 2 ELSE 1,
                                  IF quoted THEN len ELSE len + 1, <<>>)

\* No call of the parser yet.
NoParse == [line |-> NULL_STR, record |-> NoRecord, content |-> NULL_STR]

gdb_mi_record_is_error(record) ==
    record.type = "RESULT" /\ record.result_class = "ERROR"

\* The msg member of an error record, or NULL.
gdb_mi_record_get_error_message(record) ==
    IF ~gdb_mi_record_is_error(record) THEN NULL_STR
    ELSE IF \E k \in 1..Len(record.results) : record.results[k].name = STR.msg
    THEN LET k == CHOOSE k \in 1..Len(record.results) :
                      record.results[k].name = STR.msg
         IN  record.results[k].val
    ELSE NULL_STR

(***************************************************************************)
(* The lines the subprocess of the model can write.                        *)
(***************************************************************************)
LINE ==
    [PROMPT |-> STR_PROMPT \o <<" ">>,
     DONE |-> <<"^">> \o STR.done,
     RUNNING |-> <<"^">> \o STR.running,
     ASYNC_RUNNING |-> <<"*">> \o STR.running,
     STOPPED |-> <<"*">> \o STR.stopped,
     ERROR_MSG |-> <<"n", "o">>,
     ERROR |-> <<"^">> \o STR.error \o <<",">> \o STR.msg
                  \o <<"=", "\"", "n", "o", "\"">>,
     ERROR_BARE |-> <<"^">> \o STR.error,
     EXIT |-> <<"^">> \o STR.exit]

Lines == {LINE.PROMPT, LINE.DONE, LINE.RUNNING, LINE.ASYNC_RUNNING,
          LINE.STOPPED, LINE.ERROR, LINE.ERROR_BARE, LINE.EXIT}

\* The lines of the specification of the command pipeline.
PipeLines == {LINE.PROMPT, LINE.DONE, LINE.ERROR}

\* Messages of the errors the session creates.
MSG ==
    [NOT_READY |-> Literal("Session not ready for commands"),
     EXITED |-> Literal("GDB process exited unexpectedly"),
     TIMED_OUT |-> Literal("GDB command timed out"),
     UNKNOWN_ERROR |-> Literal("Unknown error"),
     COMMAND_FAILED |-> Literal("GDB command failed"),
     ALREADY_STARTED |-> Literal("Session already started"),
     STARTUP_EXITED |-> Literal("GDB process exited unexpectedly during startup"),
     STARTUP_TIMED_OUT |-> Literal("GDB startup timed out")]

\* The command the subprocess is made to quit with (it is no task).
QUIT == 0 - 1

\* A timer that is not pending (a NULL source, or a source that has fired).
NoTimer == 0 - 1

\* Values of timeout_ms the model sets, and of the environment variable
\* GDB_MCP_POST_COMMAND_DELAY_MS (NULL: not set).
TimeoutChoices == {500, 1000}

ENV_500 == <<"5", "0", "0">>

EnvChoices == {NULL_STR, ENV_500}

(***************************************************************************)
(* State.                                                                  *)
(***************************************************************************)
VARIABLES
    state,          \* GdbSession.state
    timeout_ms,     \* GdbSession.timeout_ms
    process,        \* GdbSession.process: NULL or "proc"
    stdin_pipe,     \* GdbSession.stdin_pipe: NULL or "pipe"
    stdout_reader,  \* GdbSession.stdout_reader: NULL or "reader"
    env_delay,      \* the environment variable GDB_MCP_POST_COMMAND_DELAY_MS
    starts,         \* the GTask and StartData of each gdb_session_start_async
    tasks,          \* the GTask and ExecuteData / ExecuteMiData of each execute
    terms,          \* remaining ms of each pending terminate timer
    budget,         \* the calls and lines the environment may still make
    gdb_run,        \* the subprocess: "none", "running", "exited"
    gdb_cur,        \* the command the subprocess is answering (0: startup)
    gdb_stdin,      \* commands written to its stdin and not yet taken by it
    gdb_eof,        \* the end of its stdout has been read
    gdb_lines,      \* the lines it can write
    crashed,        \* the gateway process has crashed
    emitted,        \* the signals the session has emitted, in order
    manager,        \* the GdbSessionManager
    mgr_calls,      \* the calls of the manager made, and those still to make
    parser,         \* the last call of the MI parser: its line and what it gave
    object          \* the GObject of the session: its ref_count, and owners,
                    \* the references held by others than its timers

vars == <<state, timeout_ms, process, stdin_pipe, stdout_reader, env_delay,
          parser, starts, tasks, terms, budget, gdb_run, gdb_cur, gdb_stdin,
          gdb_eof, gdb_lines, crashed, emitted, manager, mgr_calls, object>>

\* What the owners of the session change: the manager, its calls, and the
\* references on the session.
mgr_vars == <<manager, mgr_calls, object>>

session_vars ==
    <<state, timeout_ms, process, stdin_pipe, stdout_reader, emitted>>

gdb_vars == <<gdb_run, gdb_cur, gdb_stdin, gdb_eof, gdb_lines>>

States == {"DISCONNECTED", "STARTING", "READY", "RUNNING", "STOPPED",
           "TERMINATED", "ERROR"}

NoResult == [kind |-> "none", msg |-> NULL_STR, out |-> <<>>]

Failure(kind, msg) == [kind |-> kind, msg |-> msg, out |-> <<>>]

Success(out) == [kind |-> "ok", msg |-> NULL_STR, out |-> out]

\* An error of GLib (G_IO_ERROR, G_SPAWN_ERROR) handed on as it is.
GLibError == Failure("GLibError", NULL_STR)

(***************************************************************************)
(* GTask: the first g_task_return_* of a task delivers the completion to   *)
(* the caller's callback; GLib refuses a later one (ever_returned).        *)
(***************************************************************************)
g_task_return(t, res) ==
    IF t.returned THEN t
    ELSE [t EXCEPT !.returned = TRUE, !.result = res, !.ncb = @ + 1]

\* gdb_session_is_ready that also takes a session that is starting.
gdb_session_is_ready_starting ==
    state = "READY" \/ state = "STOPPED" \/ state = "STARTING"

gdb_session_is_ready ==
    state = "READY" \/ state = "STOPPED"

\* The state set_state leaves.
set_state(new_state) ==
    IF state = new_state THEN state ELSE new_state

\* The emissions of the signals state-changed, ready and terminated.
StateChanged(old_state, new_state) ==
    [signal |-> "state-changed", old |-> old_state, new |-> new_state]

Ready == [signal |-> "ready", old |-> NULL, new |-> NULL]

Terminated == [signal |-> "terminated", old |-> NULL, new |-> NULL]

\* What set_state emits when the state is old_state.
set_state_signals(old_state, new_state) ==
    IF old_state = new_state THEN <<>>
    ELSE <<StateChanged(old_state, new_state)>>
             \o (IF new_state = "READY" THEN <<Ready>> ELSE <<>>)

(***************************************************************************)
(* get_post_command_delay_ms, with g_ascii_strtoull in base 10 and the     *)
(* cast of its result to guint.                                            *)
(***************************************************************************)
DigitValue(c) == CHOOSE d \in 0..9 : Digits[d + 1] = c

\* A guint64 is four 16-bit limbs, the least significant first.
LimbBase == 2^16

Limbs(n) == <<n % LimbBase, n \div LimbBase, 0, 0>>

G_MAXUINT64 == <<LimbBase - 1, LimbBase - 1, LimbBase - 1, LimbBase - 1>>

\* x * 10 + d as a guint64, and whether it overflowed.
MulAdd(x, d) ==
    LET Sum(c1, c2, c3, c4) ==
            [val |-> <<c1 % LimbBase, c2 % LimbBase, c3 % LimbBase,
                       c4 % LimbBase>>,
             overflow |-> c4 \div LimbBase # 0]
        Limb4(c1, c2, c3) ==
            Sum(c1, c2, c3, x[4] * 10 + (c3 \div LimbBase))
        Limb3(c1, c2) == Limb4(c1, c2, x[3] * 10 + (c2 \div LimbBase))
        Limb2(c1) == Limb3(c1, x[2] * 10 + (c1 \div LimbBase))
    IN  Limb2(x[1] * 10 + d)

\* -x as a guint64.
Negate(x) ==
    LET Sum(c1, c2, c3, c4) ==
            <<c1 % LimbBase, c2 % LimbBase, c3 % LimbBase, c4 % LimbBase>>
        Limb4(c1, c2, c3) ==
            Sum(c1, c2, c3, (LimbBase - 1 - x[4]) + (c3 \div LimbBase))
        Limb3(c1, c2) ==
            Limb4(c1, c2, (LimbBase - 1 - x[3]) + (c2 \div LimbBase))
        Limb2(c1) == Limb3(c1, (LimbBase - 1 - x[2]) + (c1 \div LimbBase))
    IN  Limb2((LimbBase - 1 - x[1]) + 1)

RECURSIVE strtoull_digits(_, _, _, _, _)
strtoull_digits(s, i, acc, any, overflow) ==
    IF g_ascii_isdigit(At(s, i))
    THEN LET Next_digit(r) ==
                 strtoull_digits(s, i + 1, r.val, TRUE, overflow \/ r.overflow)
         IN  Next_digit(MulAdd(acc, DigitValue(At(s, i))))
    ELSE [val |-> IF overflow THEN G_MAXUINT64 ELSE acc, any |-> any]

g_ascii_strtoull(s) ==
    LET Value(negative, r) ==
            IF ~r.any THEN Limbs(0)
            ELSE IF negative THEN Negate(r.val)
            ELSE r.val
        Sign(i) ==
            Value(At(s, i) = "-",
                  strtoull_digits(s, IF At(s, i) \in {"-", "+"} THEN i + 1 ELSE i,
                                  Limbs(0), FALSE, FALSE))
    IN  Sign(skip_whitespace(s, 1))

\* (guint) x: the low 32 bits.
CastGuint(x) == <<x[1], x[2], 0, 0>>

\* The delay as a guint in limbs.
get_post_command_delay ==
    LET Delay(delay) ==
            IF env_delay # NULL_STR /\ delay # Limbs(0) THEN delay
            ELSE Limbs(DEFAULT_POST_COMMAND_DELAY_MS)
    IN  Delay(IF env_delay = NULL_STR THEN Limbs(0)
              ELSE CastGuint(g_ascii_strtoull(env_delay)))

\* The delay in ms.  The timers of the model count in integers below 2^31:
\* a longer delay is one of 2^31 - 1 ms.
get_post_command_delay_ms ==
    LET Ms(delay) == IF delay[2] >= 2^15 THEN (2^30 - 1) + 2^30
                     ELSE delay[1] + LimbBase * delay[2]
    IN  Ms(get_post_command_delay)

(***************************************************************************)
(* Tasks.  A task is the GTask of one asynchronous call together with its  *)
(* task data.  phase: "write" (the command is being written), "delay" (the *)
(* settle timer is pending), "read" (a line read is outstanding), "lost"   *)
(* (the read or write was refused for a NULL stream: no callback will      *)
(* come), "done" (the pipeline has ended), "rejected" (not admitted).      *)
(* timer: the ms left of the task's timeout source, or NoTimer.  output:   *)
(* the lines accumulated (of execute_mi: the lines whose records were      *)
(* accumulated); it stays in the task as the history of its read loop.     *)
(* alone: every earlier command had completed when this one was submitted. *)
(* line (of a start): the line its last read returned.                     *)
(***************************************************************************)
NewStart(phase, timer) ==
    [phase |-> phase, timer |-> timer, ready_received |-> FALSE,
     line |-> NULL_STR,
     returned |-> FALSE, ncb |-> 0, result |-> NoResult]

NewTask(kind, phase, timer) ==
    [kind |-> kind, phase |-> phase, timer |-> timer, delay |-> NoTimer,
     alone |-> \A c \in 1..Len(tasks) : tasks[c].returned,
     output |-> <<>>, complete |-> FALSE,
     saw_error |-> FALSE, error_message |-> NULL_STR,
     saw_running |-> FALSE, saw_stopped |-> FALSE,
     returned |-> FALSE, ncb |-> 0, result |-> NoResult]

\* g_source_destroy + g_source_unref of the timeout source, if one is pending.
CancelTimeout(t) == [t EXCEPT !.timer = NoTimer]

Admitted(t) == t.phase # "rejected"

InFlight(t) == Admitted(t) /\ ~t.returned

\* What a read of the subprocess output can return.
StartupLines ==
    IF gdb_run # "none" /\ ~gdb_eof
    THEN gdb_lines
    ELSE {}

\* What the read of command c can return: a line, and whether the
\* subprocess wrote it answering a command before c.
ReadableLines(c) ==
    IF gdb_run # "none" /\ ~gdb_eof /\ budget.lines > 0
    THEN {[text |-> line, prev |-> (1 <= gdb_cur /\ gdb_cur < c)] :
             line \in gdb_lines}
    ELSE {}

ReadableEof == gdb_run = "exited"

(***************************************************************************)
(* The timeout sources of the main context.  A source whose interval has   *)
(* passed is dispatched before the callback of any I/O that completes      *)
(* later: no I/O callback runs while a timer is due.                       *)
(***************************************************************************)
PendingTimers ==
    {starts[i].timer : i \in 1..Len(starts)}
        \cup {tasks[c].timer : c \in 1..Len(tasks)}
        \cup {tasks[c].delay : c \in 1..Len(tasks)}
        \cup {terms[k] : k \in 1..Len(terms)}
        \cup {mgr_calls.tool.guard}

LoopIdle == 0 \notin PendingTimers

(***************************************************************************)
(* Startup.                                                                *)
(***************************************************************************)
read_next_startup_line(t) ==
    [t EXCEPT !.phase = IF stdout_reader = NULL THEN "lost" ELSE "read"]

\* A check of the state that lets a session in state Error start again.
StartRefusedUnlessError == state \notin {"DISCONNECTED", "ERROR"}

\* The check of the state: the start is refused with AlreadyRunning.
StartRefused == state # "DISCONNECTED"

\* What gdb_session_start_async does to the session and its subprocess.
start_session ==
    /\ ~crashed
    /\ IF StartRefused
       THEN /\ starts' = Append(starts,
                   g_task_return(NewStart("rejected", NoTimer),
                                 Failure("AlreadyRunning", MSG.ALREADY_STARTED)))
            /\ UNCHANGED <<session_vars, gdb_vars>>
       ELSE \E spawned \in BOOLEAN :
            IF ~spawned
            THEN /\ state' = "ERROR"
                 /\ emitted' = emitted
                        \o set_state_signals(state, "STARTING")
                        \o set_state_signals("STARTING", "ERROR")
                 /\ starts' = Append(starts,
                        g_task_return(NewStart("done", NoTimer), GLibError))
                 /\ UNCHANGED <<timeout_ms, process, stdin_pipe, stdout_reader,
                                gdb_vars>>
            ELSE /\ state' = "STARTING"
                 /\ emitted' = emitted \o set_state_signals(state, "STARTING")
                 /\ process' = "proc"
                 /\ stdin_pipe' = "pipe"
                 /\ stdout_reader' = "reader"
                 /\ gdb_run' = "running"
                 /\ gdb_cur' = 0
                 /\ starts' = Append(starts, NewStart("read", timeout_ms))
                 /\ UNCHANGED <<timeout_ms, gdb_stdin, gdb_eof, gdb_lines>>
    /\ UNCHANGED <<env_delay, parser, tasks, terms, crashed>>

gdb_session_start_async ==
    /\ budget.starts > 0
    /\ budget' = [budget EXCEPT !.starts = @ - 1]
    /\ start_session
    /\ UNCHANGED mgr_vars

\* The read failed.
StartupReadError(t) ==
    [st |-> set_state("ERROR"),
     t |-> [g_task_return(CancelTimeout(t), GLibError) EXCEPT !.phase = "done"]]

\* An end of the stream that leaves the state as it is.
StartupReadEofKeepsState(t) ==
    [st |-> state,
     t |-> [g_task_return(CancelTimeout(t),
                          Failure("SpawnFailed", MSG.STARTUP_EXITED))
               EXCEPT !.phase = "done"]]

\* The read returned no line: EOF.
StartupReadEof(t) ==
    [st |-> set_state("ERROR"),
     t |-> [g_task_return(CancelTimeout(t),
                          Failure("SpawnFailed", MSG.STARTUP_EXITED))
               EXCEPT !.phase = "done"]]

\* A startup that takes the first line of the subprocess for its prompt.
StartupReadLineAnyLine(t, line) ==
    [st |-> set_state("READY"),
     t |-> [g_task_return(CancelTimeout([t EXCEPT !.ready_received = TRUE,
                                                  !.line = line]),
                          Success(<<>>))
               EXCEPT !.phase = "done"]]

\* The read returned a line, which the task keeps as the line read last.
StartupReadLine(t, line) ==
    IF gdb_mi_parser_is_prompt(line)
    THEN [st |-> set_state("READY"),
          t |-> [g_task_return(CancelTimeout([t EXCEPT !.ready_received = TRUE,
                                                       !.line = line]),
                               Success(<<>>))
                    EXCEPT !.phase = "done"]]
    ELSE [st |-> state, t |-> read_next_startup_line([t EXCEPT !.line = line])]

on_startup_line_read(i) ==
    /\ ~crashed
    /\ LoopIdle
    /\ starts[i].phase = "read"
    /\ \/ \E r \in {StartupReadError(starts[i])} :
             /\ state' = r.st
             /\ emitted' = emitted \o set_state_signals(state, r.st)
             /\ starts' = [starts EXCEPT ![i] = r.t]
             /\ UNCHANGED <<gdb_eof>>
       \/ /\ ReadableEof
          /\ \E r \in {StartupReadEof(starts[i])} :
                /\ state' = r.st
                /\ emitted' = emitted \o set_state_signals(state, r.st)
                /\ starts' = [starts EXCEPT ![i] = r.t]
          /\ gdb_eof' = TRUE
       \/ \E line \in StartupLines :
             /\ \E r \in {StartupReadLine(starts[i], line)} :
                   /\ state' = r.st
                   /\ emitted' = emitted \o set_state_signals(state, r.st)
                   /\ starts' = [starts EXCEPT ![i] = r.t]
             /\ UNCHANGED gdb_eof
    /\ UNCHANGED <<timeout_ms, process, stdin_pipe, stdout_reader, env_delay, parser,
                   mgr_vars, tasks, terms, budget, gdb_run, gdb_cur, gdb_stdin,
                   gdb_lines, crashed>>

on_start_timeout(i) ==
    /\ ~crashed
    /\ starts[i].timer = 0
    /\ starts' = [starts EXCEPT ![i] =
           g_task_return([@ EXCEPT !.timer = NoTimer],
                         Failure("Timeout", MSG.STARTUP_TIMED_OUT))]
    /\ UNCHANGED <<session_vars, env_delay, parser, mgr_vars, tasks, terms, budget,
                   gdb_vars, crashed>>

(***************************************************************************)
(* The execute pipeline.                                                   *)
(***************************************************************************)
read_next_execute_line(t) ==
    [t EXCEPT !.phase = IF stdout_reader = NULL THEN "lost" ELSE "read"]

read_next_mi_line(t) ==
    [t EXCEPT !.phase = IF stdout_reader = NULL THEN "lost" ELSE "read"]

\* An admission that schedules no timeout source.
ExecuteAdmissionNoTimeout(kind) ==
    IF ~gdb_session_is_ready
    THEN g_task_return(NewTask(kind, "rejected", NoTimer),
                       Failure("SessionNotReady", MSG.NOT_READY))
    ELSE NewTask(kind, IF stdin_pipe = NULL THEN "lost" ELSE "write", NoTimer)

\* The task a submission creates: the admission check, the task data, the
\* timeout source and the start of the write.
ExecuteAdmission(kind) ==
    IF ~gdb_session_is_ready
    THEN g_task_return(NewTask(kind, "rejected", NoTimer),
                       Failure("SessionNotReady", MSG.NOT_READY))
    ELSE NewTask(kind, IF stdin_pipe = NULL THEN "lost" ELSE "write", timeout_ms)

gdb_session_execute_async ==
    /\ ~crashed
    /\ budget.cmds > 0
    /\ budget' = [budget EXCEPT !.cmds = @ - 1]
    /\ tasks' = Append(tasks, ExecuteAdmission("exec"))
    /\ UNCHANGED <<session_vars, env_delay, parser, mgr_vars, starts, terms, gdb_vars,
                   crashed>>

gdb_session_execute_mi_async ==
    /\ ~crashed
    /\ budget.cmds > 0
    /\ budget' = [budget EXCEPT !.cmds = @ - 1]
    /\ tasks' = Append(tasks, ExecuteAdmission("mi"))
    /\ UNCHANGED <<session_vars, env_delay, parser, mgr_vars, starts, terms, gdb_vars,
                   crashed>>

\* g_output_stream_write_all_finish failed.
CommandWriteFailed(t) ==
    [g_task_return(CancelTimeout(t), GLibError) EXCEPT !.phase = "done"]

\* A written command whose response is read at once, with no settle delay.
CommandWrittenNoDelay(t) == read_next_execute_line(t)

\* The command was written: the settle delay is scheduled.
CommandWritten(t) ==
    [t EXCEPT !.phase = "delay", !.delay = get_post_command_delay_ms]

on_command_written(c) ==
    /\ ~crashed
    /\ LoopIdle
    /\ tasks[c].kind = "exec" /\ tasks[c].phase = "write"
    /\ \/ /\ tasks' = [tasks EXCEPT ![c] = CommandWriteFailed(@)]
          /\ UNCHANGED gdb_stdin
       \/ /\ gdb_run = "running"
          /\ tasks' = [tasks EXCEPT ![c] = CommandWritten(@)]
          /\ gdb_stdin' = Append(gdb_stdin, c)
    /\ UNCHANGED <<session_vars, env_delay, parser, mgr_vars, starts, terms, budget,
                   gdb_run, gdb_cur, gdb_eof, gdb_lines, crashed>>

on_read_delay_complete(c) ==
    /\ ~crashed
    /\ tasks[c].phase = "delay" /\ tasks[c].delay = 0
    /\ tasks' = [tasks EXCEPT ![c] =
                    read_next_execute_line([@ EXCEPT !.delay = NoTimer])]
    /\ UNCHANGED <<session_vars, env_delay, parser, mgr_vars, starts, terms, budget,
                   gdb_vars, crashed>>

\* The prefixes on_execute_line_read looks for.
PREFIX ==
    [HAT_error |-> <<"^">> \o STR.error, HAT_running |-> <<"^">> \o STR.running,
     STAR_running |-> <<"*">> \o STR.running,
     STAR_stopped |-> <<"*">> \o STR.stopped, HAT_exit |-> <<"^">> \o STR.exit]

\* The error message on_execute_line_read stores for a line "^error...".
ErrorMessageOf(line) ==
    LET Stored(msg) == IF msg # NULL_STR THEN msg ELSE MSG.COMMAND_FAILED
        Message(record) ==
            Stored(IF record.ok THEN gdb_mi_record_get_error_message(record)
                   ELSE MSG.UNKNOWN_ERROR)
    IN  Message(gdb_mi_parser_parse_line(line))

\* Flags that follow the last line: a ^running or *running line clears
\* saw_stopped, a *stopped line clears saw_running.
TrackLineLatest(t, ln) ==
    LET line == ln.text
        running == \/ g_str_has_prefix(line, PREFIX.HAT_running)
                   \/ g_str_has_prefix(line, PREFIX.STAR_running)
        stopped == g_str_has_prefix(line, PREFIX.STAR_stopped)
    IN  [t EXCEPT
           !.output = Append(@, ln),
           !.saw_error = @ \/ g_str_has_prefix(line, PREFIX.HAT_error),
           !.error_message = IF g_str_has_prefix(line, PREFIX.HAT_error)
                             THEN ErrorMessageOf(line) ELSE @,
           !.saw_running = (@ /\ ~stopped) \/ running,
           !.saw_stopped = (@ /\ ~running) \/ stopped]

\* The flags after a line: saw_error and error_message, saw_running,
\* saw_stopped, with the line appended to the output.
TrackLine(t, ln) ==
    LET line == ln.text
    IN  [t EXCEPT
           !.output = Append(@, ln),
           !.saw_error = @ \/ g_str_has_prefix(line, PREFIX.HAT_error),
           !.error_message = IF g_str_has_prefix(line, PREFIX.HAT_error)
                             THEN ErrorMessageOf(line) ELSE @,
           !.saw_running = @ \/ g_str_has_prefix(line, PREFIX.HAT_running)
                             \/ g_str_has_prefix(line, PREFIX.STAR_running),
           !.saw_stopped = @ \/ g_str_has_prefix(line, PREFIX.STAR_stopped)]

\* A completion that delivers the accumulated text whatever was seen.
ExecuteCompleteRaw(t) ==
    [g_task_return(CancelTimeout([t EXCEPT !.complete = TRUE]),
                   Success(t.output))
        EXCEPT !.phase = "done"]

\* The completion at a prompt or ^exit line.
ExecuteComplete(t) ==
    LET u == CancelTimeout([t EXCEPT !.complete = TRUE])
    IN  [(IF t.saw_error
          THEN g_task_return(u, Failure("CommandFailed", t.error_message))
          ELSE g_task_return(u, Success(t.output)))
         EXCEPT !.phase = "done"]

\* A read loop that ends at the first prompt or ^exit line.
ExecuteLineCompletesAtOnce(t, line) ==
    gdb_mi_parser_is_prompt(line) \/ g_str_has_prefix(line, PREFIX.HAT_exit)

\* Whether the line ends the read loop.
ExecuteLineCompletes(t, line) ==
    /\ gdb_mi_parser_is_prompt(line) \/ g_str_has_prefix(line, PREFIX.HAT_exit)
    /\ ~(t.saw_running /\ ~t.saw_stopped)

ExecuteReadLine(t, ln) ==
    LET After(u) == IF ExecuteLineCompletes(u, ln.text)
                    THEN ExecuteComplete(u)
                    ELSE read_next_execute_line(u)
    IN  After(TrackLine(t, ln))

ExecuteReadError(t) ==
    [g_task_return(CancelTimeout(t), GLibError) EXCEPT !.phase = "done"]

ExecuteReadEof(t) ==
    [g_task_return(CancelTimeout(t), Failure("CommandFailed", MSG.EXITED))
        EXCEPT !.phase = "done"]

\* A read callback that stores what the line reports in the session state:
\* Running at ^running and *running, Stopped at *stopped.
on_execute_line_read_tracks_state(c) ==
    /\ ~crashed
    /\ LoopIdle
    /\ tasks[c].kind = "exec" /\ tasks[c].phase = "read"
    /\ \E ln \in ReadableLines(c) :
          /\ tasks' = [tasks EXCEPT ![c] = ExecuteReadLine(@, ln)]
          /\ budget' = [budget EXCEPT !.lines = @ - 1]
          /\ state' = IF g_str_has_prefix(ln.text, PREFIX.STAR_stopped)
                      THEN "STOPPED"
                      ELSE IF \/ g_str_has_prefix(ln.text, PREFIX.HAT_running)
                              \/ g_str_has_prefix(ln.text, PREFIX.STAR_running)
                      THEN "RUNNING"
                      ELSE state
    /\ UNCHANGED <<timeout_ms, process, stdin_pipe, stdout_reader, emitted,
                   env_delay, parser, mgr_vars, starts, terms, gdb_vars,
                   crashed>>

on_execute_line_read(c) ==
    /\ ~crashed
    /\ LoopIdle
    /\ tasks[c].kind = "exec" /\ tasks[c].phase = "read"
    /\ \/ /\ tasks' = [tasks EXCEPT ![c] = ExecuteReadError(@)]
          /\ UNCHANGED <<gdb_eof, budget>>
       \/ /\ ReadableEof
          /\ tasks' = [tasks EXCEPT ![c] = ExecuteReadEof(@)]
          /\ gdb_eof' = TRUE
          /\ UNCHANGED budget
       \/ \E ln \in ReadableLines(c) :
             /\ tasks' = [tasks EXCEPT ![c] = ExecuteReadLine(@, ln)]
             /\ budget' = [budget EXCEPT !.lines = @ - 1]
             /\ UNCHANGED gdb_eof
    /\ UNCHANGED <<session_vars, env_delay, parser, mgr_vars, starts, terms,
                   gdb_run, gdb_cur, gdb_stdin, gdb_lines, crashed>>

\* on_execute_timeout that drops the timer without completing the task.
ExecuteTimeoutSilent(t) == [t EXCEPT !.timer = NoTimer]

\* on_execute_timeout on the task of gdb_session_execute_async.
ExecuteTimeout(t) ==
    g_task_return([t EXCEPT !.timer = NoTimer],
                  Failure("Timeout", MSG.TIMED_OUT))

(***************************************************************************)
(* The execute_mi pipeline.  Its timeout source is not kept in the task    *)
(* data, so no completion cancels it; its callback is on_execute_timeout,  *)
(* which reads the timeout_source field of an ExecuteData where the task   *)
(* data is the shorter ExecuteMiData: the value read is undefined.         *)
(***************************************************************************)
MiCommandWriteFailed(t) ==
    [g_task_return(t, GLibError) EXCEPT !.phase = "done"]

on_mi_command_written(c) ==
    /\ ~crashed
    /\ LoopIdle
    /\ tasks[c].kind = "mi" /\ tasks[c].phase = "write"
    /\ \/ /\ tasks' = [tasks EXCEPT ![c] = MiCommandWriteFailed(@)]
          /\ UNCHANGED gdb_stdin
       \/ /\ gdb_run = "running"
          /\ tasks' = [tasks EXCEPT ![c] = read_next_mi_line(@)]
          /\ gdb_stdin' = Append(gdb_stdin, c)
    /\ UNCHANGED <<session_vars, env_delay, parser, mgr_vars, starts, terms, budget,
                   gdb_run, gdb_cur, gdb_eof, gdb_lines, crashed>>

MiReadLine(t, ln) ==
    LET After(record, u) ==
            IF \/ gdb_mi_parser_is_prompt(ln.text)
               \/ (record.ok /\ record.type = "RESULT")
            THEN [g_task_return(u, Success(u.output)) EXCEPT !.phase = "done"]
            ELSE read_next_mi_line(u)
        Parsed(record) ==
            After(record,
                  IF record.ok THEN [t EXCEPT !.output = Append(@, ln)] ELSE t)
    IN  Parsed(gdb_mi_parser_parse_line(ln.text))

MiReadError(t) ==
    [g_task_return(t, GLibError) EXCEPT !.phase = "done"]

MiReadEof(t) ==
    [g_task_return(t, Failure("CommandFailed", MSG.EXITED))
        EXCEPT !.phase = "done"]

on_execute_mi_line_read(c) ==
    /\ ~crashed
    /\ LoopIdle
    /\ tasks[c].kind = "mi" /\ tasks[c].phase = "read"
    /\ \/ /\ tasks' = [tasks EXCEPT ![c] = MiReadError(@)]
          /\ UNCHANGED <<gdb_eof, budget>>
       \/ /\ ReadableEof
          /\ tasks' = [tasks EXCEPT ![c] = MiReadEof(@)]
          /\ gdb_eof' = TRUE
          /\ UNCHANGED budget
       \/ \E ln \in ReadableLines(c) :
             /\ tasks' = [tasks EXCEPT ![c] = MiReadLine(@, ln)]
             /\ budget' = [budget EXCEPT !.lines = @ - 1]
             /\ UNCHANGED gdb_eof
    /\ UNCHANGED <<session_vars, env_delay, parser, mgr_vars, starts, terms,
                   gdb_run, gdb_cur, gdb_stdin, gdb_lines, crashed>>

on_execute_timeout(c) ==
    /\ ~crashed
    /\ tasks[c].timer = 0
    /\ \/ /\ tasks' = [tasks EXCEPT ![c] = ExecuteTimeout(@)]
          /\ UNCHANGED crashed
       \/ /\ tasks[c].kind = "mi"
          /\ crashed' = TRUE
          /\ UNCHANGED tasks
    /\ UNCHANGED <<session_vars, env_delay, parser, mgr_vars, starts, terms, budget,
                   gdb_vars>>

gdb_session_set_timeout_ms(ms) ==
    /\ ~crashed
    /\ ms # timeout_ms
    /\ timeout_ms' = ms
    /\ UNCHANGED <<state, process, stdin_pipe, stdout_reader, emitted,
                   env_delay, parser, mgr_vars, starts, tasks, terms, budget, gdb_vars,
                   crashed>>

(***************************************************************************)
(* Terminate.                                                              *)
(***************************************************************************)
\* A cleanup that releases the handles and leaves the state as it is.
cleanup_session_resources_keeps_state ==
    /\ state' = state
    /\ emitted' = Append(emitted, Terminated)
    /\ stdout_reader' = NULL
    /\ stdin_pipe' = NULL
    /\ process' = NULL

cleanup_session_resources ==
    /\ state' = set_state("TERMINATED")
    /\ emitted' = emitted \o set_state_signals(state, "TERMINATED")
                          \o <<Terminated>>
    /\ stdout_reader' = NULL
    /\ stdin_pipe' = NULL
    /\ process' = NULL

\* A terminate timer that takes no reference on the session.
g_object_ref_not_taken(obj) == obj

\* g_object_ref (self) for the callback of the terminate timer, and the
\* g_object_unref (self) of that callback.
g_object_ref(obj) == [obj EXCEPT !.ref_count = @ + 1]

g_object_unref(obj) == [obj EXCEPT !.ref_count = @ - 1]

\* A terminate that stores Terminated at once and leaves the handles to
\* its timer.
terminate_session_at_once(obj) ==
    IF process = NULL
    THEN /\ object' = obj
         /\ UNCHANGED <<state, emitted, stdout_reader, stdin_pipe, process,
                        terms, gdb_stdin>>
    ELSE /\ state' = set_state("TERMINATED")
         /\ emitted' = emitted \o set_state_signals(state, "TERMINATED")
         /\ gdb_stdin' = IF stdin_pipe # NULL /\ gdb_run = "running"
                         THEN Append(gdb_stdin, QUIT) ELSE gdb_stdin
         /\ terms' = Append(terms, TERMINATE_TIMEOUT_MS)
         /\ object' = g_object_ref(obj)
         /\ UNCHANGED <<stdout_reader, stdin_pipe, process>>

\* What gdb_session_terminate does to the session; obj is the object as
\* the rest of the step leaves it.
terminate_session(obj) ==
    IF process = NULL
    THEN /\ object' = obj
         /\ UNCHANGED <<state, emitted, stdout_reader, stdin_pipe, process,
                        terms, gdb_stdin>>
    ELSE IF state # "TERMINATED" /\ state # "DISCONNECTED"
    THEN /\ gdb_stdin' = IF stdin_pipe # NULL /\ gdb_run = "running"
                         THEN Append(gdb_stdin, QUIT) ELSE gdb_stdin
         /\ terms' = Append(terms, TERMINATE_TIMEOUT_MS)
         /\ object' = g_object_ref(obj)
         /\ UNCHANGED <<state, emitted, stdout_reader, stdin_pipe, process>>
    ELSE /\ cleanup_session_resources
         /\ object' = obj
         /\ UNCHANGED <<terms, gdb_stdin>>

gdb_session_terminate ==
    /\ ~crashed
    /\ budget.terms > 0
    /\ budget' = [budget EXCEPT !.terms = @ - 1]
    /\ terminate_session(object)
    /\ UNCHANGED <<timeout_ms, env_delay, parser, manager, mgr_calls, starts, tasks,
                   gdb_run, gdb_cur, gdb_eof, gdb_lines, crashed>>

\* g_object_unref of the session by one of its owners.  The last
\* reference is dropped after gdb_session_dispose, which terminates the
\* session: the object is finalized unless dispose left a reference on it.
unref_session ==
    /\ ~crashed
    /\ object.owners > 0
    /\ IF object.ref_count > 1
       THEN /\ object' = [object EXCEPT !.ref_count = @ - 1,
                                        !.owners = @ - 1]
            /\ UNCHANGED <<state, emitted, stdout_reader, stdin_pipe,
                           process, terms, gdb_stdin>>
       ELSE terminate_session([object EXCEPT !.ref_count = @ - 1,
                                             !.owners = @ - 1])
    /\ UNCHANGED <<timeout_ms, env_delay, parser, manager, mgr_calls, starts, tasks,
                   budget, gdb_run, gdb_cur, gdb_eof, gdb_lines, crashed>>

RemoveAt(seq, k) == SubSeq(seq, 1, k - 1) \o SubSeq(seq, k + 1, Len(seq))

\* A timer callback that cleans up whether or not the process is there.
on_terminate_timeout_unchecked(k) ==
    /\ ~crashed
    /\ terms[k] = 0
    /\ terms' = RemoveAt(terms, k)
    /\ gdb_run' = "exited"
    /\ cleanup_session_resources
    /\ object' = g_object_unref(object)
    /\ UNCHANGED <<timeout_ms, env_delay, parser, manager, mgr_calls, starts, tasks,
                   budget, gdb_cur, gdb_stdin, gdb_eof, gdb_lines, crashed>>

on_terminate_timeout(k) ==
    /\ ~crashed
    /\ terms[k] = 0
    /\ terms' = RemoveAt(terms, k)
    /\ IF process = NULL
       THEN UNCHANGED <<state, emitted, stdout_reader, stdin_pipe, process,
                        gdb_run>>
       ELSE /\ gdb_run' = "exited"
            /\ cleanup_session_resources
    /\ object' = g_object_unref(object)
    /\ UNCHANGED <<timeout_ms, env_delay, parser, manager, mgr_calls, starts, tasks,
                   budget, gdb_cur, gdb_stdin, gdb_eof, gdb_lines, crashed>>

(***************************************************************************)
(* The GDB subprocess: it takes the commands written to its stdin one at a *)
(* time and may exit.  A line it writes to its stdout is one it writes     *)
(* while it answers gdb_cur; the model lets it write the line when the     *)
(* session reads it.  What it wrote before it exited can still be read,    *)
(* until a read has returned the end of the stream.                        *)
(***************************************************************************)
GdbAccept ==
    /\ ~crashed
    /\ gdb_run = "running"
    /\ gdb_stdin # <<>>
    /\ gdb_stdin' = Tail(gdb_stdin)
    /\ IF Head(gdb_stdin) = QUIT
       THEN gdb_run' = "exited" /\ UNCHANGED gdb_cur
       ELSE gdb_cur' = Head(gdb_stdin) /\ UNCHANGED gdb_run
    /\ UNCHANGED <<session_vars, env_delay, parser, mgr_vars, starts, tasks, terms, budget,
                   gdb_eof, gdb_lines, crashed>>

GdbExit ==
    /\ ~crashed
    /\ gdb_run = "running"
    /\ gdb_run' = "exited"
    /\ UNCHANGED <<session_vars, env_delay, parser, mgr_vars, starts, tasks, terms, budget,
                   gdb_cur, gdb_stdin, gdb_eof, gdb_lines, crashed>>

(***************************************************************************)
(* The clock of the event loop.  A timeout source fires once its interval  *)
(* has passed: time advances by TickMs while no pending timer is due.      *)
(***************************************************************************)
Elapse(ms) == IF ms = NoTimer THEN NoTimer ELSE ms - TickMs

Tick ==
    /\ ~crashed
    /\ LoopIdle
    /\ PendingTimers # {NoTimer} /\ PendingTimers # {}
    /\ starts' = [i \in 1..Len(starts) |->
                     [starts[i] EXCEPT !.timer = Elapse(@)]]
    /\ tasks' = [c \in 1..Len(tasks) |->
                    [tasks[c] EXCEPT !.timer = Elapse(@), !.delay = Elapse(@)]]
    /\ terms' = [k \in 1..Len(terms) |-> Elapse(terms[k])]
    /\ mgr_calls' = [mgr_calls EXCEPT !.tool.guard = Elapse(@)]
    /\ UNCHANGED <<session_vars, env_delay, parser, manager, object, budget, gdb_vars,
                   crashed>>

(***************************************************************************)
(* The session manager: a hash table from session ids to sessions, behind  *)
(* a mutex.  An action of the manager is what one operation does between   *)
(* g_mutex_lock and g_mutex_unlock; its signal is emitted by a later step. *)
(* A session is named by the number of its creation, from 1; 0 is the NULL *)
(* pointer.  The session whose start, I/O and timers the model follows is  *)
(* FirstSession, the first one created unless the initial state says       *)
(* otherwise; the others are never started, so gdb_session_terminate       *)
(* returns at once on them.                                                *)
(***************************************************************************)
NULL_SESSION == 0

FirstSession == mgr_calls.first

\* The decimal digits printf writes for a number that is not negative.
RECURSIVE Decimal(_)
Decimal(n) ==
    IF n < 10 THEN <<Digits[n + 1]>>
    ELSE Decimal(n \div 10) \o <<Digits[(n % 10) + 1]>>

\* A session id made of the time alone.
session_id_without_counter(real_time, counter) == Decimal(real_time)

\* g_strdup_printf ("%" G_GINT64_FORMAT "-%lu", real_time, counter), for a
\* counter that (gulong) leaves as it is.
session_id_printf(real_time, counter) ==
    Decimal(real_time) \o <<"-">> \o Decimal(counter)

\* The values g_get_real_time returns: the clock may stand still or go back.
ClockValues == 1..MaxClock

\* The GHashTable operations on a table from ids to sessions.
EmptyTable == [id \in {} |-> NULL_SESSION]

g_hash_table_size(table) == Cardinality(DOMAIN table)

g_hash_table_lookup(table, id) ==
    IF id \in DOMAIN table THEN table[id] ELSE NULL_SESSION

g_hash_table_insert(table, id, session) ==
    [k \in (DOMAIN table) \cup {id} |-> IF k = id THEN session ELSE table[k]]

\* A removal that leaves the entry in the table.
g_hash_table_remove_nothing(table, id) == table

g_hash_table_remove(table, id) ==
    [k \in (DOMAIN table) \ {id} |-> table[k]]

\* The id of the first entry of the table only.
FirstKeyOnly(ids) ==
    IF ids = {} THEN <<>> ELSE <<CHOOSE id \in ids : TRUE>>

\* The entries of the table in an order of iteration.
RECURSIVE TableKeys(_)
TableKeys(ids) ==
    IF ids = {} THEN <<>>
    ELSE LET Rest(id) == <<id>> \o TableKeys(ids \ {id})
         IN  Rest(CHOOSE id \in ids : TRUE)

\* The manager after gdb_session_manager_init.  session_ids: the ids a
\* gdb_session_manager_terminate_all in progress has still to remove.
NewManager(timeout) ==
    [sessions |-> EmptyTable, session_counter |-> 0,
     default_timeout_ms |-> timeout, session_ids |-> <<>>]

\* No call made, and the calls that can be made.  created: the id and the
\* session each create_session returned; removed: the ids for which
\* remove_session returned TRUE, n_removed their number; n: the number of
\* calls; last: the last call and what it returned.  emit: the signals that
\* calls which have left the mutex have still to emit, each by the thread
\* of a call ("call") or by terminate_all ("all"); signals: the bag of the
\* signals emitted; all: the sessions created and the ids in the table when the
\* last terminate_all collected the ids.
NewCalls(creates, calls) ==
    [created |-> <<>>, removed |-> {}, n_removed |-> 0, n |-> 0,
     last |-> [op |-> "none", id |-> NULL_STR, ret |-> 0],
     creates_left |-> creates, calls_left |-> calls,
     emit |-> {}, signals |-> EmptyBag,
     all |-> [created |-> 0, present |-> {}],
     first |-> 1,
     tool |-> [pc |-> "idle", guard |-> NoTimer, n |-> 0, session_id |-> NULL_STR,
               before |-> {}, sync |-> NoResult, isError |-> FALSE]]

gdb_session_manager_get_session_count == g_hash_table_size(manager.sessions)

\* The list gdb_session_manager_list_sessions returns.
ListOf(table) ==
    LET keys == TableKeys(DOMAIN table)
    IN  [k \in 1..Len(keys) |-> table[keys[Len(keys) + 1 - k]]]

\* The ids the callers of the model pass: those create_session can make,
\* one more, and NULL.
IdChoices ==
    {session_id_printf(t, n) : t \in ClockValues, n \in 0..MaxCreates}
        \cup {NULL_STR}

Called(calls, op, id, ret) ==
    [calls EXCEPT !.n = @ + 1, !.last = [op |-> op, id |-> id, ret |-> ret]]

gdb_session_manager_create_session ==
    /\ mgr_calls.creates_left > 0
    /\ \E real_time \in ClockValues :
          LET session_id == session_id_printf(real_time,
                                              manager.session_counter)
              session == Len(mgr_calls.created) + 1
          IN  /\ manager' = [manager EXCEPT
                     !.session_counter = @ + 1,
                     !.sessions = g_hash_table_insert(@, session_id, session)]
              /\ timeout_ms' = IF session = FirstSession
                                THEN manager.default_timeout_ms
                                ELSE timeout_ms
              /\ mgr_calls' =
                     [Called(mgr_calls, "create", session_id, session) EXCEPT
                        !.creates_left = @ - 1,
                        !.created = Append(@, [id |-> session_id,
                                               session |-> session]),
                        !.emit = @ \cup {[signal |-> "session-added",
                                            id |-> session_id,
                                            by |-> "call"]}]
              /\ object' = IF session = FirstSession
                            THEN [object EXCEPT !.ref_count = @ + 1,
                                                !.owners = @ + 1]
                            ELSE object
    /\ UNCHANGED <<state, process, stdin_pipe, stdout_reader, emitted,
                   env_delay, parser, starts, tasks, terms, budget, gdb_vars, crashed>>

gdb_session_manager_get_session(session_id) ==
    /\ mgr_calls.calls_left > 0
    /\ mgr_calls' =
           [Called(mgr_calls, "get", session_id,
                   IF session_id = NULL_STR THEN NULL_SESSION
                   ELSE g_hash_table_lookup(manager.sessions, session_id))
              EXCEPT !.calls_left = @ - 1]
    /\ UNCHANGED <<session_vars, env_delay, parser, manager, object, starts, tasks, terms,
                   budget, gdb_vars, crashed>>

gdb_session_manager_list_sessions ==
    /\ mgr_calls.calls_left > 0
    /\ mgr_calls' =
           [Called(mgr_calls, "list", NULL_STR,
                   Len(ListOf(manager.sessions)))
              EXCEPT !.calls_left = @ - 1]
    /\ UNCHANGED <<session_vars, env_delay, parser, manager, object, starts, tasks, terms,
                   budget, gdb_vars, crashed>>

\* A removal that does not terminate the session.
TerminateSkipped(session) ==
    UNCHANGED <<state, emitted, stdout_reader, stdin_pipe, process, terms,
                gdb_stdin, object>>

\* gdb_session_terminate (session) of remove_session, and the
\* g_object_unref of the reference of the table.
TerminateFound(session) ==
    IF session = FirstSession
    THEN terminate_session([object EXCEPT !.ref_count = @ - 1,
                                          !.owners = @ - 1])
    ELSE UNCHANGED <<state, emitted, stdout_reader, stdin_pipe, process,
                     terms, gdb_stdin, object>>

\* A remove_session that finds nothing.
RemoveSessionFindsNothing(table, session_id) ==
    [sessions |-> table, session |-> NULL_SESSION, removed |-> FALSE]

\* remove_session: the table it leaves and what it returns.
RemoveSession(table, session_id) ==
    IF session_id # NULL_STR
           /\ g_hash_table_lookup(table, session_id) # NULL_SESSION
    THEN [sessions |-> g_hash_table_remove(table, session_id),
          session |-> g_hash_table_lookup(table, session_id),
          removed |-> TRUE]
    ELSE [sessions |-> table, session |-> NULL_SESSION, removed |-> FALSE]

\* The signal remove_session has to emit once it has left the mutex.
SessionRemovedBy(op, session_id) ==
    [signal |-> "session-removed", id |-> session_id,
     by |-> IF op = "terminate_all" THEN "all" ELSE "call"]

\* A remove_session that emits session-removed whatever it found.
RemovedAlwaysEmits(calls, op, session_id, r) ==
    [Called(calls, op, session_id, IF r.removed THEN 1 ELSE 0) EXCEPT
       !.removed = IF r.removed THEN @ \cup {session_id} ELSE @,
       !.n_removed = IF r.removed THEN @ + 1 ELSE @,
       !.emit = @ \cup {SessionRemovedBy(op, session_id)}]

Removed(calls, op, session_id, r) ==
    [Called(calls, op, session_id, IF r.removed THEN 1 ELSE 0) EXCEPT
       !.removed = IF r.removed THEN @ \cup {session_id} ELSE @,
       !.n_removed = IF r.removed THEN @ + 1 ELSE @,
       !.emit = IF r.removed THEN @ \cup {SessionRemovedBy(op, session_id)}
                ELSE @]

\* terminate_all is between its call and its return.
InTerminateAll ==
    \/ manager.session_ids # <<>>
    \/ \E e \in mgr_calls.emit : e.by = "all"

gdb_session_manager_remove_session(session_id) ==
    /\ mgr_calls.calls_left > 0
    /\ \E r \in {RemoveSession(manager.sessions, session_id)} :
          /\ TerminateFound(r.session)
          /\ manager' = [manager EXCEPT !.sessions = r.sessions]
          /\ mgr_calls' = [Removed(mgr_calls, "remove", session_id, r)
                             EXCEPT !.calls_left = @ - 1]
    /\ UNCHANGED <<timeout_ms, env_delay, parser, starts, tasks, budget, gdb_run,
                   gdb_cur, gdb_eof, gdb_lines, crashed>>

\* terminate_all collects the ids under the mutex ...
gdb_session_manager_terminate_all ==
    /\ mgr_calls.calls_left > 0
    /\ ~InTerminateAll
    /\ manager' = [manager EXCEPT
                      !.session_ids = TableKeys(DOMAIN manager.sessions)]
    /\ mgr_calls' = [Called(mgr_calls, "terminate_all", NULL_STR, 0)
                       EXCEPT !.calls_left = @ - 1,
                              !.all = [created |-> Len(mgr_calls.created),
                                       present |-> DOMAIN manager.sessions]]
    /\ UNCHANGED <<session_vars, env_delay, parser, object, starts, tasks, terms,
                   budget, gdb_vars, crashed>>

\* ... and then removes the sessions one call of remove_session at a time,
\* each of which returns once it has emitted its signal.
terminate_all_remove ==
    /\ manager.session_ids # <<>>
    /\ \A e \in mgr_calls.emit : e.by # "all"
    /\ \E r \in {RemoveSession(manager.sessions, Head(manager.session_ids))} :
          /\ TerminateFound(r.session)
          /\ manager' = [manager EXCEPT
                            !.sessions = r.sessions,
                            !.session_ids = Tail(@)]
          /\ mgr_calls' = Removed(mgr_calls, "terminate_all",
                                  Head(manager.session_ids), r)
    /\ UNCHANGED <<timeout_ms, env_delay, parser, starts, tasks, budget, gdb_run,
                   gdb_cur, gdb_eof, gdb_lines, crashed>>

\* g_signal_emit of create_session and of remove_session, after the mutex
\* is unlocked: the handlers run, and the call returns.
emit_signal(e) ==
    /\ mgr_calls' = [mgr_calls EXCEPT
                        !.emit = @ \ {e},
                        !.signals = @ (+) SetToBag({[signal |-> e.signal,
                                                     id |-> e.id]})]
    /\ UNCHANGED <<session_vars, env_delay, parser, manager, object, starts, tasks, terms,
                   budget, gdb_vars, crashed>>

\* gdb_session_start_async on the first session the manager created.
StartCreatedSession ==
    /\ mgr_calls.created # <<>>
    /\ gdb_session_start_async

(***************************************************************************)
(* The tool handlers.  A handler runs on the thread of the server: it      *)
(* makes its calls of the manager and emits their signals without another  *)
(* call in between, and while it runs the loop of its own main context     *)
(* (tool.pc is "start" or "command") only the sources of that context are  *)
(* dispatched: those of the start or the command it waits for, and its     *)
(* guard timer.  When the handler returns, the context is gone and what is *)
(* left in it never runs.  tool.n: the handlers that have returned;        *)
(* session_id: the sessionId of the last call; before: the ids in the      *)
(* table when it was called; sync: what its start or command returned;     *)
(* isError: the flag of its result.                                        *)
(***************************************************************************)
SYNC_GUARD_MS == 1000

\* The handlers of the signals run before the call of the manager returns.
EmitNow(calls) ==
    [calls EXCEPT
       !.emit = {},
       !.signals = @ (+) SetToBag({[signal |-> e.signal, id |-> e.id] :
                                      e \in calls.emit})]

\* The handler returns its result.
ToolReturns(calls, sync, isError) ==
    [calls EXCEPT !.tool = [@ EXCEPT !.pc = "idle", !.guard = NoTimer,
                                     !.n = @ + 1, !.sync = sync,
                                     !.isError = isError]]

\* The callback of the start or the command the handler waits for has run
\* and has quit the main loop: the handler goes on without waiting.
LoopQuit ==
    \/ mgr_calls.tool.pc = "start" /\ starts[Len(starts)].returned
    \/ mgr_calls.tool.pc = "command" /\ tasks[Len(tasks)].returned

\* gdb_start up to its main loop: create_session, start_async, the guard.
gdb_tools_handle_gdb_start ==
    /\ mgr_calls.tool.pc = "idle" /\ mgr_calls.emit = {}
    /\ mgr_calls.creates_left > 0
    /\ Len(mgr_calls.created) + 1 = FirstSession
    /\ timeout_ms = manager.default_timeout_ms
    /\ budget.starts > 0
    /\ budget' = [budget EXCEPT !.starts = @ - 1]
    /\ \E real_time \in ClockValues :
          LET session_id == session_id_printf(real_time,
                                              manager.session_counter)
          IN  /\ manager' = [manager EXCEPT
                     !.session_counter = @ + 1,
                     !.sessions = g_hash_table_insert(@, session_id,
                                                      FirstSession)]
              /\ mgr_calls' =
                     [EmitNow([Called(mgr_calls, "create", session_id,
                                      FirstSession) EXCEPT
                                 !.creates_left = @ - 1,
                                 !.created = Append(@, [id |-> session_id,
                                                        session |-> FirstSession]),
                                 !.emit = {[signal |-> "session-added",
                                            id |-> session_id,
                                            by |-> "call"]}])
                        EXCEPT !.tool = [@ EXCEPT
                                 !.pc = "start",
                                 !.guard = timeout_ms + SYNC_GUARD_MS,
                                 !.session_id = session_id,
                                 !.before = DOMAIN manager.sessions]]
    /\ object' = [object EXCEPT !.ref_count = @ + 1, !.owners = @ + 1]
    /\ start_session

\* gdb_start from the end of its main loop: the session is removed if the
\* start did not succeed.
gdb_tools_handle_gdb_start_returns ==
    /\ mgr_calls.tool.pc = "start"
    /\ starts[Len(starts)].returned \/ mgr_calls.tool.guard = 0
    /\ starts' = [starts EXCEPT ![Len(starts)] =
                     [@ EXCEPT !.timer = NoTimer,
                               !.phase = IF @ \in {"done", "rejected"}
                                         THEN @ ELSE "lost"]]
    /\ IF starts[Len(starts)].returned
              /\ starts[Len(starts)].result.kind = "ok"
       THEN /\ mgr_calls' = ToolReturns(mgr_calls, starts[Len(starts)].result,
                                        FALSE)
            /\ UNCHANGED <<manager, object, state, emitted, stdout_reader,
                           stdin_pipe, process, terms, gdb_stdin>>
       ELSE \E r \in {RemoveSession(manager.sessions,
                                     mgr_calls.tool.session_id)} :
               /\ TerminateFound(r.session)
               /\ manager' = [manager EXCEPT !.sessions = r.sessions]
               /\ mgr_calls' =
                      ToolReturns(
                          EmitNow(Removed(mgr_calls, "remove",
                                          mgr_calls.tool.session_id, r)),
                          IF starts[Len(starts)].returned
                          THEN starts[Len(starts)].result
                          ELSE Failure("Timeout", Literal("Timeout")),
                          TRUE)
    /\ UNCHANGED <<timeout_ms, env_delay, parser, tasks, budget, gdb_run, gdb_cur,
                   gdb_eof, gdb_lines, crashed>>

\* What gdb_tools_execute_command_sync returns for the command c when its
\* main loop has ended, whatever the loop left.
execute_command_sync_times_out(t, c) ==
    Failure("Timeout", MSG.TIMED_OUT \o Literal(": ") \o Decimal(c))

\* What gdb_tools_execute_command_sync returns for the command c when its
\* main loop has ended: on_execute_complete has taken the result of the
\* task, or nothing has.
gdb_tools_execute_command_sync(t, c) ==
    IF ~t.returned
    THEN Failure("Timeout", MSG.TIMED_OUT \o Literal(": ") \o Decimal(c))
    ELSE t.result

\* A lookup that finds the first session for an id that is not in the table.
get_session_or_first(session_id) ==
    IF session_id # NULL_STR /\ session_id \in DOMAIN manager.sessions
    THEN g_hash_table_lookup(manager.sessions, session_id)
    ELSE IF Len(mgr_calls.created) >= FirstSession THEN FirstSession
    ELSE NULL_SESSION

\* The session of the sessionId of the arguments, or NULL (and an error
\* result) if there is no sessionId or no session under it.
gdb_tools_get_session(session_id) ==
    IF session_id = NULL_STR THEN NULL_SESSION
    ELSE g_hash_table_lookup(manager.sessions, session_id)

\* A tool that runs a command on the session of its sessionId, up to the
\* main loop of gdb_tools_execute_command_sync.  A session other than the
\* first was never started: its state is Disconnected.
gdb_tools_handle_gdb_command(session_id) ==
    /\ mgr_calls.tool.pc = "idle" /\ mgr_calls.emit = {}
    /\ mgr_calls.calls_left > 0
    /\ \E session \in {gdb_tools_get_session(session_id)} :
          /\ mgr_calls' =
                 [Called(mgr_calls, "get", session_id, session) EXCEPT
                    !.calls_left = @ - 1,
                    !.tool = IF session = NULL_SESSION
                             THEN [@ EXCEPT !.n = @ + 1,
                                            !.session_id = session_id,
                                            !.before = DOMAIN manager.sessions,
                                            !.sync = NoResult,
                                            !.isError = TRUE]
                             ELSE [@ EXCEPT !.pc = "command",
                                            !.guard = timeout_ms + SYNC_GUARD_MS,
                                            !.session_id = session_id,
                                            !.before = DOMAIN manager.sessions]]
          /\ IF session = NULL_SESSION
             THEN UNCHANGED <<tasks, budget>>
             ELSE /\ ~crashed
                  /\ budget.cmds > 0
                  /\ budget' = [budget EXCEPT !.cmds = @ - 1]
                  /\ tasks' = Append(tasks,
                         IF session = FirstSession
                         THEN ExecuteAdmission("exec")
                         ELSE g_task_return(
                                  NewTask("exec", "rejected", NoTimer),
                                  Failure("SessionNotReady", MSG.NOT_READY)))
    /\ UNCHANGED <<session_vars, env_delay, parser, manager, object, starts, terms,
                   gdb_vars, crashed>>

\* The tool from the end of the main loop.
gdb_tools_handle_gdb_command_returns ==
    /\ mgr_calls.tool.pc = "command"
    /\ tasks[Len(tasks)].returned \/ mgr_calls.tool.guard = 0
    /\ \E sync \in {gdb_tools_execute_command_sync(tasks[Len(tasks)],
                                                    Len(tasks))} :
          mgr_calls' = ToolReturns(mgr_calls, sync, sync.kind # "ok")
    /\ tasks' = [tasks EXCEPT ![Len(tasks)] =
                    [@ EXCEPT !.timer = NoTimer, !.delay = NoTimer,
                              !.phase = IF @ \in {"done", "rejected"}
                                        THEN @ ELSE "lost"]]
    /\ UNCHANGED <<session_vars, env_delay, parser, manager, object, starts, terms,
                   budget, gdb_vars, crashed>>

\* gdb_terminate: remove_session of its sessionId.
gdb_tools_handle_gdb_terminate(session_id) ==
    /\ mgr_calls.tool.pc = "idle" /\ mgr_calls.emit = {}
    /\ mgr_calls.calls_left > 0
    /\ \E r \in {RemoveSession(manager.sessions, session_id)} :
          /\ TerminateFound(r.session)
          /\ manager' = [manager EXCEPT !.sessions = r.sessions]
          /\ mgr_calls' =
                 [ToolReturns(EmitNow(Removed(mgr_calls, "remove",
                                              session_id, r)),
                              NoResult, ~r.removed)
                    EXCEPT !.calls_left = @ - 1,
                           !.tool.session_id = session_id,
                           !.tool.before = DOMAIN manager.sessions]
    /\ UNCHANGED <<timeout_ms, env_delay, parser, starts, tasks, budget, gdb_run,
                   gdb_cur, gdb_eof, gdb_lines, crashed>>

(***************************************************************************)
(* The specification.                                                      *)
(***************************************************************************)
Init ==
    /\ state = "DISCONNECTED"
    /\ timeout_ms \in TimeoutChoices
    /\ process = NULL
    /\ stdin_pipe = NULL
    /\ stdout_reader = NULL
    /\ env_delay \in EnvChoices
    /\ starts = <<>>
    /\ tasks = <<>>
    /\ terms = <<>>
    /\ budget = [cmds |-> LifeCmds, lines |-> LifeLines,
                 terms |-> MaxTerminate, starts |-> MaxStartCalls]
    /\ gdb_run = "none"
    /\ gdb_cur = 0
    /\ gdb_stdin = <<>>
    /\ gdb_eof = FALSE
    /\ gdb_lines = Lines
    /\ crashed = FALSE
    /\ emitted = <<>>
    /\ object = [ref_count |-> 1, owners |-> 1]
    /\ parser = NoParse
    /\ manager = NewManager(DEFAULT_TIMEOUT_MS)
    /\ mgr_calls = NewCalls(0, 0)

Next ==
    \/ gdb_session_start_async
    \/ \E i \in 1..Len(starts) : on_startup_line_read(i)
    \/ \E i \in 1..Len(starts) : on_start_timeout(i)
    \/ gdb_session_execute_async
    \/ gdb_session_execute_mi_async
    \/ \E c \in 1..Len(tasks) : on_command_written(c)
    \/ \E c \in 1..Len(tasks) : on_mi_command_written(c)
    \/ \E c \in 1..Len(tasks) : on_read_delay_complete(c)
    \/ \E c \in 1..Len(tasks) : on_execute_line_read(c)
    \/ \E c \in 1..Len(tasks) : on_execute_mi_line_read(c)
    \/ \E c \in 1..Len(tasks) : on_execute_timeout(c)
    \/ \E ms \in TimeoutChoices : gdb_session_set_timeout_ms(ms)
    \/ gdb_session_terminate
    \/ \E k \in 1..Len(terms) : on_terminate_timeout(k)
    \/ GdbAccept
    \/ GdbExit
    \/ Tick

Spec == Init /\ [][Next]_vars

(***************************************************************************)
(* The command pipeline alone: one start, no terminate, and more commands. *)
(***************************************************************************)
PipeInit ==
    /\ state = "DISCONNECTED"
    /\ timeout_ms \in TimeoutChoices
    /\ process = NULL
    /\ stdin_pipe = NULL
    /\ stdout_reader = NULL
    /\ env_delay = ENV_500
    /\ starts = <<>>
    /\ tasks = <<>>
    /\ terms = <<>>
    /\ budget = [cmds |-> MaxCmds, lines |-> MaxLines, terms |-> 0, starts |-> 1]
    /\ gdb_run = "none"
    /\ gdb_cur = 0
    /\ gdb_stdin = <<>>
    /\ gdb_eof = FALSE
    /\ gdb_lines = PipeLines
    /\ crashed = FALSE
    /\ emitted = <<>>
    /\ object = [ref_count |-> 1, owners |-> 1]
    /\ parser = NoParse
    /\ manager = NewManager(DEFAULT_TIMEOUT_MS)
    /\ mgr_calls = NewCalls(0, 0)

PipeNext ==
    \/ gdb_session_start_async
    \/ \E i \in 1..Len(starts) : on_startup_line_read(i)
    \/ \E i \in 1..Len(starts) : on_start_timeout(i)
    \/ gdb_session_execute_async
    \/ gdb_session_execute_mi_async
    \/ \E c \in 1..Len(tasks) : on_command_written(c)
    \/ \E c \in 1..Len(tasks) : on_mi_command_written(c)
    \/ \E c \in 1..Len(tasks) : on_read_delay_complete(c)
    \/ \E c \in 1..Len(tasks) : on_execute_line_read(c)
    \/ \E c \in 1..Len(tasks) : on_execute_mi_line_read(c)
    \/ \E c \in 1..Len(tasks) : on_execute_timeout(c)
    \/ \E ms \in TimeoutChoices : gdb_session_set_timeout_ms(ms)
    \/ GdbAccept
    \/ GdbExit
    \/ Tick

PipeSpec == PipeInit /\ [][PipeNext]_vars

(***************************************************************************)
(* The read loop of one gdb_session_execute_async, with every line.        *)
(***************************************************************************)
LoopInit ==
    /\ state = "DISCONNECTED"
    /\ timeout_ms = 1000
    /\ process = NULL
    /\ stdin_pipe = NULL
    /\ stdout_reader = NULL
    /\ env_delay = ENV_500
    /\ starts = <<>>
    /\ tasks = <<>>
    /\ terms = <<>>
    /\ budget = [cmds |-> 1, lines |-> LoopLines, terms |-> 0, starts |-> 1]
    /\ gdb_run = "none"
    /\ gdb_cur = 0
    /\ gdb_stdin = <<>>
    /\ gdb_eof = FALSE
    /\ gdb_lines = Lines
    /\ crashed = FALSE
    /\ emitted = <<>>
    /\ object = [ref_count |-> 1, owners |-> 1]
    /\ parser = NoParse
    /\ manager = NewManager(DEFAULT_TIMEOUT_MS)
    /\ mgr_calls = NewCalls(0, 0)

LoopNext ==
    \/ gdb_session_start_async
    \/ \E i \in 1..Len(starts) : on_startup_line_read(i)
    \/ \E i \in 1..Len(starts) : on_start_timeout(i)
    \/ gdb_session_execute_async
    \/ \E c \in 1..Len(tasks) : on_command_written(c)
    \/ \E c \in 1..Len(tasks) : on_read_delay_complete(c)
    \/ \E c \in 1..Len(tasks) : on_execute_line_read(c)
    \/ \E c \in 1..Len(tasks) : on_execute_timeout(c)
    \/ GdbAccept
    \/ GdbExit
    \/ Tick

LoopSpec == LoopInit /\ [][LoopNext]_vars

(***************************************************************************)
(* The start and the end of a session: no command, and more calls of       *)
(* gdb_session_terminate.                                                  *)
(***************************************************************************)
TermInit ==
    /\ state = "DISCONNECTED"
    /\ timeout_ms \in TimeoutChoices
    /\ process = NULL
    /\ stdin_pipe = NULL
    /\ stdout_reader = NULL
    /\ env_delay = NULL_STR
    /\ starts = <<>>
    /\ tasks = <<>>
    /\ terms = <<>>
    /\ budget = [cmds |-> 0, lines |-> 0, terms |-> MaxTermCalls,
                 starts |-> MaxStartCalls]
    /\ gdb_run = "none"
    /\ gdb_cur = 0
    /\ gdb_stdin = <<>>
    /\ gdb_eof = FALSE
    /\ gdb_lines = Lines
    /\ crashed = FALSE
    /\ emitted = <<>>
    /\ object = [ref_count |-> 1, owners |-> 1]
    /\ parser = NoParse
    /\ manager = NewManager(DEFAULT_TIMEOUT_MS)
    /\ mgr_calls = NewCalls(0, 0)

TermNext ==
    \/ gdb_session_start_async
    \/ \E i \in 1..Len(starts) : on_startup_line_read(i)
    \/ \E i \in 1..Len(starts) : on_start_timeout(i)
    \/ gdb_session_terminate
    \/ \E k \in 1..Len(terms) : on_terminate_timeout(k)
    \/ GdbAccept
    \/ GdbExit
    \/ Tick

TermSpec == TermInit /\ [][TermNext]_vars

(***************************************************************************)
(* The settle delay of one command, for every short value of the           *)
(* environment variable; time does not pass.                               *)
(***************************************************************************)
DelayInit ==
    /\ state = "DISCONNECTED"
    /\ timeout_ms = DEFAULT_TIMEOUT_MS
    /\ process = NULL
    /\ stdin_pipe = NULL
    /\ stdout_reader = NULL
    /\ env_delay \in {NULL_STR} \cup
           UNION {[1..n -> {"0", "5", "-", "+", "x"}] : n \in 0..MaxEnvLen}
    /\ starts = <<>>
    /\ tasks = <<>>
    /\ terms = <<>>
    /\ budget = [cmds |-> 1, lines |-> 0, terms |-> 0, starts |-> 1]
    /\ gdb_run = "none"
    /\ gdb_cur = 0
    /\ gdb_stdin = <<>>
    /\ gdb_eof = FALSE
    /\ gdb_lines = {LINE.PROMPT}
    /\ crashed = FALSE
    /\ emitted = <<>>
    /\ object = [ref_count |-> 1, owners |-> 1]
    /\ parser = NoParse
    /\ manager = NewManager(DEFAULT_TIMEOUT_MS)
    /\ mgr_calls = NewCalls(0, 0)

DelayNext ==
    \/ gdb_session_start_async
    \/ \E i \in 1..Len(starts) : on_startup_line_read(i)
    \/ gdb_session_execute_async
    \/ \E c \in 1..Len(tasks) : on_command_written(c)

DelaySpec == DelayInit /\ [][DelayNext]_vars

(***************************************************************************)
(* The session manager: the calls of its threads and their signals         *)
(* (RegSpec), and these with the start and the end of one session          *)
(* (RegLifeNext, under FairRegSpec).                                       *)
(***************************************************************************)
RegInit ==
    /\ state = "DISCONNECTED"
    /\ timeout_ms = DEFAULT_TIMEOUT_MS
    /\ process = NULL
    /\ stdin_pipe = NULL
    /\ stdout_reader = NULL
    /\ env_delay = NULL_STR
    /\ starts = <<>>
    /\ tasks = <<>>
    /\ terms = <<>>
    /\ budget = [cmds |-> 0, lines |-> 0, terms |-> 0, starts |-> 1]
    /\ gdb_run = "none"
    /\ gdb_cur = 0
    /\ gdb_stdin = <<>>
    /\ gdb_eof = FALSE
    /\ gdb_lines = {LINE.PROMPT}
    /\ crashed = FALSE
    /\ emitted = <<>>
    /\ object = [ref_count |-> 1, owners |-> 1]
    /\ parser = NoParse
    /\ manager = NewManager(DEFAULT_TIMEOUT_MS)
    /\ mgr_calls = NewCalls(MaxCreates, MaxMgrCalls)

RegNext ==
    \/ gdb_session_manager_create_session
    \/ \E id \in IdChoices : gdb_session_manager_get_session(id)
    \/ \E id \in IdChoices : gdb_session_manager_remove_session(id)
    \/ gdb_session_manager_list_sessions
    \/ gdb_session_manager_terminate_all
    \/ terminate_all_remove
    \/ \E e \in mgr_calls.emit : emit_signal(e)

RegSpec == RegInit /\ [][RegNext]_vars

\* One session, which the manager creates and whose life the model follows.
RegLifeInit ==
    /\ state = "DISCONNECTED"
    /\ timeout_ms = DEFAULT_TIMEOUT_MS
    /\ process = NULL
    /\ stdin_pipe = NULL
    /\ stdout_reader = NULL
    /\ env_delay = NULL_STR
    /\ starts = <<>>
    /\ tasks = <<>>
    /\ terms = <<>>
    /\ budget = [cmds |-> 0, lines |-> 0, terms |-> 0, starts |-> 1]
    /\ gdb_run = "none"
    /\ gdb_cur = 0
    /\ gdb_stdin = <<>>
    /\ gdb_eof = FALSE
    /\ gdb_lines = {LINE.PROMPT}
    /\ crashed = FALSE
    /\ emitted = <<>>
    /\ object = [ref_count |-> 1, owners |-> 1]
    /\ parser = NoParse
    /\ manager = NewManager(DEFAULT_TIMEOUT_MS)
    /\ mgr_calls = NewCalls(1, MaxMgrCalls)

(***************************************************************************)
(* The tools of a server with one thread, on a manager that may hold a     *)
(* session before gdb_start creates the one the model follows, and whose   *)
(* default-timeout-ms was set to 1000.                                     *)
(***************************************************************************)
ToolInit ==
    /\ state = "DISCONNECTED"
    /\ timeout_ms = 1000
    /\ process = NULL
    /\ stdin_pipe = NULL
    /\ stdout_reader = NULL
    /\ env_delay = ENV_500
    /\ starts = <<>>
    /\ tasks = <<>>
    /\ terms = <<>>
    /\ budget = [cmds |-> MaxToolCalls, lines |-> 2, terms |-> 0, starts |-> 1]
    /\ gdb_run = "none"
    /\ gdb_cur = 0
    /\ gdb_stdin = <<>>
    /\ gdb_eof = FALSE
    /\ gdb_lines = {LINE.PROMPT, LINE.ERROR, LINE.RUNNING}
    /\ crashed = FALSE
    /\ emitted = <<>>
    /\ object = [ref_count |-> 1, owners |-> 1]
    /\ parser = NoParse
    /\ manager = NewManager(1000)
    /\ \E first \in {1, 2} :
          mgr_calls = [NewCalls(first, MaxToolCalls) EXCEPT !.first = first]

ToolNext ==
    \/ /\ Len(mgr_calls.created) + 1 < FirstSession
       /\ gdb_session_manager_create_session
    \/ \E e \in mgr_calls.emit : emit_signal(e)
    \/ gdb_tools_handle_gdb_start
    \/ gdb_tools_handle_gdb_start_returns
    \/ \E id \in IdChoices : gdb_tools_handle_gdb_command(id)
    \/ gdb_tools_handle_gdb_command_returns
    \/ \E id \in IdChoices : gdb_tools_handle_gdb_terminate(id)
    \/ \E i \in 1..Len(starts) : on_startup_line_read(i)
    \/ \E i \in 1..Len(starts) : on_start_timeout(i)
    \/ \E c \in 1..Len(tasks) : on_command_written(c)
    \/ \E c \in 1..Len(tasks) : on_read_delay_complete(c)
    \/ \E c \in 1..Len(tasks) : on_execute_line_read(c)
    \/ \E c \in 1..Len(tasks) : on_execute_timeout(c)
    \/ /\ mgr_calls.tool.pc = "idle"
       /\ \E k \in 1..Len(terms) : on_terminate_timeout(k)
    \/ GdbAccept
    \/ GdbExit
    \/ ~LoopQuit /\ Tick

ToolSpec == ToolInit /\ [][ToolNext]_vars

(***************************************************************************)
(* The life of the session object.  Its owners (the caller that created    *)
(* it, the table of a manager) may drop their references at any time; a    *)
(* caller calls the session only while it owns a reference, and a callback *)
(* of a start runs only on a session that has not been finalized.          *)
(***************************************************************************)
RefInit ==
    /\ state = "DISCONNECTED"
    /\ timeout_ms = 1000
    /\ process = NULL
    /\ stdin_pipe = NULL
    /\ stdout_reader = NULL
    /\ env_delay = NULL_STR
    /\ starts = <<>>
    /\ tasks = <<>>
    /\ terms = <<>>
    /\ budget = [cmds |-> 0, lines |-> 0, terms |-> MaxTerminate,
                 starts |-> MaxStartCalls]
    /\ gdb_run = "none"
    /\ gdb_cur = 0
    /\ gdb_stdin = <<>>
    /\ gdb_eof = FALSE
    /\ gdb_lines = {LINE.PROMPT, LINE.DONE}
    /\ crashed = FALSE
    /\ emitted = <<>>
    /\ \E n \in 1..MaxOwners : object = [ref_count |-> n, owners |-> n]
    /\ parser = NoParse
    /\ manager = NewManager(DEFAULT_TIMEOUT_MS)
    /\ mgr_calls = NewCalls(0, 0)

RefNext ==
    \/ object.owners > 0 /\ gdb_session_start_async
    \/ object.ref_count > 0 /\ \E i \in 1..Len(starts) : on_startup_line_read(i)
    \/ object.ref_count > 0 /\ \E i \in 1..Len(starts) : on_start_timeout(i)
    \/ object.owners > 0 /\ gdb_session_terminate
    \/ unref_session
    \/ \E k \in 1..Len(terms) : on_terminate_timeout(k)
    \/ GdbAccept
    \/ GdbExit
    \/ Tick

RefSpec == RefInit /\ [][RefNext]_vars

(***************************************************************************)
(* One command of gdb_session_execute_async and one terminate, for every   *)
(* timeout and settle delay; the timeout of the session is not set again.  *)
(***************************************************************************)
CmdInit ==
    /\ state = "DISCONNECTED"
    /\ timeout_ms \in TimeoutChoices
    /\ process = NULL
    /\ stdin_pipe = NULL
    /\ stdout_reader = NULL
    /\ env_delay \in EnvChoices
    /\ starts = <<>>
    /\ tasks = <<>>
    /\ terms = <<>>
    /\ budget = [cmds |-> 1, lines |-> LifeLines, terms |-> 1, starts |-> 1]
    /\ gdb_run = "none"
    /\ gdb_cur = 0
    /\ gdb_stdin = <<>>
    /\ gdb_eof = FALSE
    /\ gdb_lines = Lines
    /\ crashed = FALSE
    /\ emitted = <<>>
    /\ object = [ref_count |-> 1, owners |-> 1]
    /\ parser = NoParse
    /\ manager = NewManager(DEFAULT_TIMEOUT_MS)
    /\ mgr_calls = NewCalls(0, 0)

CmdNext ==
    \/ gdb_session_start_async
    \/ \E i \in 1..Len(starts) : on_startup_line_read(i)
    \/ \E i \in 1..Len(starts) : on_start_timeout(i)
    \/ gdb_session_execute_async
    \/ \E c \in 1..Len(tasks) : on_command_written(c)
    \/ \E c \in 1..Len(tasks) : on_read_delay_complete(c)
    \/ \E c \in 1..Len(tasks) : on_execute_line_read(c)
    \/ \E c \in 1..Len(tasks) : on_execute_timeout(c)
    \/ gdb_session_terminate
    \/ \E k \in 1..Len(terms) : on_terminate_timeout(k)
    \/ GdbAccept
    \/ GdbExit
    \/ Tick

CmdSpec == CmdInit /\ [][CmdNext]_vars

(***************************************************************************)
(* The two decoders of a quoted payload: the parser, which makes the       *)
(* Stream record of a line, and gdb_mi_parser_unescape_string, which makes *)
(* the text of console-output from the same line without its sigil.        *)
(***************************************************************************)
MaxPayload == 3     \* characters between the quotes of a payload

PayloadChars == {"a", "q", "n", "t", "r", "0", "\\", "\""}

StreamLines ==
    {<<sigil, "\"">> \o body \o <<"\"">> :
        sigil \in {"~", "@", "&"},
        body \in UNION {[1..n -> PayloadChars] : n \in 0..MaxPayload}}

ParseInit ==
    /\ state = "DISCONNECTED"
    /\ timeout_ms = DEFAULT_TIMEOUT_MS
    /\ process = NULL
    /\ stdin_pipe = NULL
    /\ stdout_reader = NULL
    /\ env_delay = NULL_STR
    /\ starts = <<>>
    /\ tasks = <<>>
    /\ terms = <<>>
    /\ budget = [cmds |-> 0, lines |-> 0, terms |-> 0, starts |-> 0]
    /\ gdb_run = "none"
    /\ gdb_cur = 0
    /\ gdb_stdin = <<>>
    /\ gdb_eof = FALSE
    /\ gdb_lines = {}
    /\ crashed = FALSE
    /\ emitted = <<>>
    /\ object = [ref_count |-> 1, owners |-> 1]
    /\ \E line \in StreamLines : parser = [NoParse EXCEPT !.line = line]
    /\ manager = NewManager(DEFAULT_TIMEOUT_MS)
    /\ mgr_calls = NewCalls(0, 0)

\* gdb_mi_parser_parse_line on the line.
parse_line ==
    /\ parser' = [parser EXCEPT !.record = gdb_mi_parser_parse_line(parser.line)]
    /\ UNCHANGED <<session_vars, env_delay, mgr_vars, starts, tasks, terms,
                   budget, gdb_vars, crashed>>

\* gdb_mi_parser_unescape_string (line + 1), as on_execute_line_read calls it.
unescape_string ==
    /\ parser' = [parser EXCEPT
                     !.content = gdb_mi_parser_unescape_string(Tail(parser.line))]
    /\ UNCHANGED <<session_vars, env_delay, mgr_vars, starts, tasks, terms,
                   budget, gdb_vars, crashed>>

ParseSpec == ParseInit /\ [][parse_line \/ unescape_string]_vars

RegLifeNext ==
    \/ RegNext
    \/ StartCreatedSession
    \/ \E i \in 1..Len(starts) : on_startup_line_read(i)
    \/ \E i \in 1..Len(starts) : on_start_timeout(i)
    \/ \E k \in 1..Len(terms) : on_terminate_timeout(k)
    \/ Tick

(***************************************************************************)
(* Properties.                                                             *)
(***************************************************************************)
TaskIds == 1..Len(tasks)

\* The step completes task c: its caller's callback is delivered.
Completes(c) == ~tasks[c].returned /\ tasks'[c].returned

\* The step is a submission (gdb_session_execute_async / _mi_async).
Submits == Len(tasks') = Len(tasks) + 1

\* The step of task c reads a line (which the read loop then holds last).
ReadsLine(c) == Len(tasks'[c].output) = Len(tasks[c].output) + 1

\* C1: every command admitted by gdb_session_execute_async has its
\* completion delivered exactly once: never twice, and once as soon as its
\* pipeline has ended or its timeout source is gone (fired or cancelled).
C1_ExactlyOnce ==
    \A c \in TaskIds :
        (tasks[c].kind = "exec" /\ Admitted(tasks[c])) =>
            /\ tasks[c].ncb <= 1
            /\ tasks[c].ncb = 1 <=> tasks[c].returned
            /\ (tasks[c].phase = "done" \/ tasks[c].timer = NoTimer)
                   => tasks[c].ncb = 1

\* A command timed out and its pipeline later came to its end too: both
\* tried to complete the task.
C1_Witness ==
    \E c \in TaskIds :
        /\ tasks[c].kind = "exec" /\ tasks[c].phase = "done"
        /\ tasks[c].complete
        /\ tasks[c].result.kind = "Timeout"
        /\ tasks[c].ncb = 1

\* C2: at most one command is in flight (admitted and not yet completed).
C2_AtMostOneInFlight ==
    Cardinality({c \in TaskIds : InFlight(tasks[c])}) <= 1

\* C3: a submission on a session that is not Ready or Stopped completes
\* with SessionNotReady; nothing is written to the subprocess, no timer is
\* scheduled, the state is unchanged, and nothing of it happens later.
C3_NotReadyRejected ==
    [][/\ (Submits /\ state \notin {"READY", "STOPPED"}) =>
            LET t == tasks'[Len(tasks')]
            IN  /\ t.returned /\ t.ncb = 1
                /\ t.result = Failure("SessionNotReady", MSG.NOT_READY)
                /\ t.timer = NoTimer /\ t.delay = NoTimer
                /\ t.phase = "rejected"
                /\ gdb_stdin' = gdb_stdin
                /\ state' = state
                /\ PendingTimers' = PendingTimers \cup {NoTimer}
       /\ \A c \in TaskIds :
            tasks[c].result.kind = "SessionNotReady" =>
                /\ tasks'[c] = tasks[c]
                /\ \A k \in 1..Len(gdb_stdin') : gdb_stdin'[k] # c
      ]_vars

\* A submission was rejected on a session that had been terminated.
C3_Witness ==
    /\ state = "TERMINATED"
    /\ \E c \in TaskIds : /\ tasks[c].result.kind = "SessionNotReady"
                           /\ tasks[c].kind = "mi"

\* C4: the result delivered for a command holds no line that the
\* subprocess wrote in response to an earlier command.  It is stated for
\* the commands submitted after every earlier one had completed, the use
\* in which no two commands are in flight.
C4_NoOutputOfEarlierCommand ==
    \A c \in TaskIds :
        tasks[c].alone =>
            \A k \in 1..Len(tasks[c].result.out) :
                ~tasks[c].result.out[k].prev

\* The lines the properties name.
TerminatorLines == {LINE.PROMPT, LINE.EXIT}
RunningLines == {LINE.RUNNING, LINE.ASYNC_RUNNING}
ErrorLines == {LINE.ERROR, LINE.ERROR_BARE}

\* The text of the last line of an output, and whether it holds a line.
LastLine(out) == out[Len(out)].text

Holds(out, lines) == \E k \in 1..Len(out) : out[k].text \in lines

\* The last ^error line of an output that holds one.
LastError(out) ==
    out[CHOOSE k \in 1..Len(out) :
            /\ out[k].text \in ErrorLines
            /\ \A j \in (k + 1)..Len(out) : out[j].text \notin ErrorLines].text

\* C5: in the execute read loop a Prompt or ^exit line read after a
\* ^running / *running line and before any *stopped line does not end the
\* loop; the loop ends at the first Prompt or ^exit line read otherwise,
\* and at no other line.
C5_ReadLoopCompletion ==
    [][\A c \in TaskIds :
          (tasks[c].kind = "exec" /\ ReadsLine(c)) =>
              LET out == tasks'[c].output
                  waiting == /\ Holds(out, RunningLines)
                             /\ ~Holds(out, {LINE.STOPPED})
              IN  IF LastLine(out) \in TerminatorLines /\ ~waiting
                  THEN /\ tasks'[c].phase = "done"
                       /\ tasks'[c].complete
                       /\ tasks'[c].returned
                  ELSE /\ tasks'[c].phase = "read"
                       /\ ~tasks'[c].complete
                       /\ tasks'[c].returned = tasks[c].returned
      ]_vars

\* A command read ^running, a prompt that did not complete it, *stopped,
\* and the prompt that completed it with the four lines.
C5_Witness ==
    \E c \in TaskIds :
        /\ tasks[c].kind = "exec" /\ tasks[c].phase = "done"
        /\ tasks[c].result.kind = "ok"
        /\ Len(tasks[c].result.out) = 4
        /\ tasks[c].result.out[1].text \in RunningLines
        /\ tasks[c].result.out[2].text \in TerminatorLines
        /\ tasks[c].result.out[3].text = LINE.STOPPED
        /\ tasks[c].result.out[4].text \in TerminatorLines

FailedBefore(c) ==
    \E b \in 1..(c - 1) :
        tasks[b].result.kind = "CommandFailed" /\ tasks[b].complete

C7_UsableAfterCommandFailed ==
    [][/\ \A c \in TaskIds :
            (Completes(c) /\ tasks'[c].result.kind = "CommandFailed"
                 /\ tasks'[c].complete) =>
                /\ state' = state
                /\ state \in {"READY", "STOPPED"}
       /\ (Submits /\ FailedBefore(Len(tasks) + 1)
               /\ tasks'[Len(tasks')].kind = "exec") =>
            LET t == tasks'[Len(tasks')]
            IN  /\ ~t.returned
                /\ t.phase = "write"
                /\ t.timer = timeout_ms
       /\ \A c \in TaskIds :
            (tasks[c].kind = "exec" /\ FailedBefore(c)) =>
                /\ (tasks'[c].phase = "delay" /\ tasks[c].phase # "delay") =>
                       /\ tasks[c].phase = "write"
                       /\ gdb_stdin' = Append(gdb_stdin, c)
                       /\ tasks'[c].delay > 0
                /\ (tasks'[c].phase = "read" /\ tasks[c].phase # "read") =>
                       /\ tasks[c].phase = "delay"
                       /\ tasks[c].delay = 0
                /\ (Completes(c) /\ tasks'[c].result.kind = "ok") =>
                       tasks[c].phase = "read"
      ]_vars

\* A command failed with the message of ^error, and the command submitted
\* after it went through its round-trip and succeeded.
C7_Witness ==
    /\ Len(tasks) = 2
    /\ tasks[1].result = Failure("CommandFailed", LINE.ERROR_MSG)
    /\ tasks[1].complete
    /\ tasks[2].kind = "exec" /\ tasks[2].alone
    /\ tasks[2].result.kind = "ok"
    /\ state = "READY"

(***************************************************************************)
(* The read loop under an event loop that keeps running: time passes and   *)
(* a timeout source that is due is dispatched.                             *)
(***************************************************************************)
TimerFires ==
    \/ \E i \in 1..Len(starts) : on_start_timeout(i)
    \/ \E c \in 1..Len(tasks) : on_read_delay_complete(c)
    \/ \E c \in 1..Len(tasks) : on_execute_timeout(c)

FairLoopSpec == LoopSpec /\ WF_vars(Tick) /\ WF_vars(TimerFires)

\* C8: the timeout source of an admitted command runs for the session's
\* timeout from the admission; when it fires on the command in flight the
\* command completes with Timeout; and every admitted command eventually
\* completes.
C8_TimeoutCompletes ==
    /\ [][/\ (Submits /\ gdb_session_is_ready) =>
                tasks'[Len(tasks')].timer = timeout_ms
           /\ \A c \in TaskIds :
                (tasks[c].kind = "exec" /\ InFlight(tasks[c])) =>
                    /\ tasks[c].timer # NoTimer
                    /\ (tasks'[c].timer = NoTimer /\ tasks[c].timer = 0) =>
                           tasks'[c].result = Failure("Timeout", MSG.TIMED_OUT)
                    /\ ~Completes(c) =>
                           tasks'[c].timer \in {tasks[c].timer,
                                                tasks[c].timer - TickMs}
          ]_vars
    /\ \A c \in 1..MaxCmds :
           (Len(tasks) >= c /\ Admitted(tasks[c])) ~>
               (Len(tasks) >= c /\ tasks[c].returned)

\* A command timed out while its pipeline was still waiting for output.
C8_Witness ==
    \E c \in TaskIds :
        /\ tasks[c].kind = "exec" /\ tasks[c].phase = "read"
        /\ tasks[c].result = Failure("Timeout", MSG.TIMED_OUT)
        /\ tasks[c].timer = NoTimer

\* C9: a command completed by the end of the subprocess output has failed
\* with "GDB process exited unexpectedly" and the session is Terminated.
C9_EofTerminates ==
    \A c \in TaskIds :
        (tasks[c].returned /\ tasks[c].phase = "done" /\ gdb_eof
             /\ tasks[c].result.kind = "CommandFailed" /\ ~tasks[c].complete) =>
            /\ tasks[c].result = Failure("CommandFailed", MSG.EXITED)
            /\ state = "TERMINATED"

\* C10: of two commands submitted on the session, the one submitted first
\* is completed first.
C10_FifoCompletion ==
    \A b, c \in TaskIds : (b < c /\ tasks[c].returned) => tasks[b].returned

(***************************************************************************)
(* The start of a session.                                                 *)
(***************************************************************************)
StartIds == 1..Len(starts)

\* The step is a call of gdb_session_start_async.
StartCall == Len(starts') = Len(starts) + 1

\* The step delivers the completion of start i.
StartCompletes(i) == ~starts[i].returned /\ starts'[i].returned

\* The step of start i reads a line, and the line is the prompt.
ReadsStartupLine(i) == starts'[i].line # starts[i].line

ReadsPrompt(i) == ReadsStartupLine(i) /\ starts'[i].line = LINE.PROMPT

\* The step of start i reads the end of the stream or fails to read.
ReadGivesUp(i) ==
    /\ starts[i].phase = "read" /\ starts'[i].phase = "done"
    /\ ~starts'[i].ready_received

\* What the step has emitted, and how many times a signal was emitted.
Emitted == SubSeq(emitted', Len(emitted) + 1, Len(emitted'))

Count(log, signal) ==
    Cardinality({k \in 1..Len(log) : log[k].signal = signal})

\* C11: gdb_session_start_async on a Disconnected session publishes the
\* transition Disconnected -> Starting, and leaves the session Starting
\* with its subprocess spawned and the startup timer running (or, the spawn
\* having failed, in Error with the start failed); in any other state it
\* completes with AlreadyRunning, spawns nothing, schedules nothing and
\* leaves the state and every handle as they were.
C11_StartOnlyWhenDisconnected ==
    [][StartCall =>
          LET t == starts'[Len(starts')]
          IN  IF state = "DISCONNECTED"
              THEN /\ Len(Emitted) >= 1
                   /\ Emitted[1] = StateChanged("DISCONNECTED", "STARTING")
                   /\ IF process' # NULL
                      THEN /\ state' = "STARTING"
                           /\ gdb_run' = "running"
                           /\ ~t.returned /\ t.timer = timeout_ms
                           /\ Len(Emitted) = 1
                      ELSE /\ state' = "ERROR"
                           /\ gdb_run' = gdb_run
                           /\ t.result = GLibError /\ t.ncb = 1
                           /\ Emitted[2] = StateChanged("STARTING", "ERROR")
              ELSE /\ t.returned /\ t.ncb = 1
                   /\ t.result = Failure("AlreadyRunning", MSG.ALREADY_STARTED)
                   /\ t.timer = NoTimer
                   /\ state' = state /\ emitted' = emitted
                   /\ process' = process /\ stdin_pipe' = stdin_pipe
                   /\ stdout_reader' = stdout_reader
                   /\ gdb_run' = gdb_run /\ gdb_stdin' = gdb_stdin
      ]_vars

\* A start was refused on a session in state Error whose earlier start
\* had failed.
C11_Witness ==
    /\ Len(starts) = 2
    /\ starts[1].result.kind \notin {"ok", "none"}
    /\ starts[2].result = Failure("AlreadyRunning", MSG.ALREADY_STARTED)
    /\ state = "ERROR"

\* C12: while its start is in progress the session becomes Ready, and the
\* start completes successfully, exactly at the step that reads the first
\* Prompt line: a line that is no prompt changes neither the state nor the
\* start, which keeps reading (while the session has its reader); the state
\* becomes Ready at no other step;
\* and when the successful completion is delivered the state is Ready and
\* ready() has been emitted once.
C12_ReadyAtFirstPrompt ==
    [][\A i \in StartIds :
          /\ ReadsPrompt(i) =>
                /\ state' = "READY"
                /\ Count(emitted', "ready") = 1
                /\ Emitted[Len(Emitted)] = Ready
                /\ starts'[i].phase = "done"
                /\ ~starts[i].returned =>
                      /\ StartCompletes(i) /\ starts'[i].ncb = 1
                      /\ starts'[i].result = Success(<<>>)
          /\ (ReadsStartupLine(i) /\ ~ReadsPrompt(i)) =>
                /\ state' = state /\ emitted' = emitted
                /\ starts'[i].returned = starts[i].returned
                /\ stdout_reader # NULL => starts'[i].phase = "read"
          /\ (StartCompletes(i) /\ starts'[i].result.kind = "ok") =>
                ReadsPrompt(i)
          /\ (state' = "READY" /\ state # "READY") =>
                \E j \in StartIds : ReadsPrompt(j)
      ]_vars

\* The start read a line that is no prompt and then the prompt, and
\* completed successfully with the session Ready.
C12_Witness ==
    \E i \in StartIds :
        /\ starts[i].result = Success(<<>>)
        /\ starts[i].line = LINE.PROMPT
        /\ state = "READY"
        /\ emitted = <<StateChanged("DISCONNECTED", "STARTING"),
                       StateChanged("STARTING", "READY"), Ready>>

\* C13: a startup read that returns the end of the stream or an error
\* leaves the state Error and the start completed with a failure, which is
\* SpawnFailed "GDB process exited unexpectedly during startup" when the
\* end of the stream completes it, with the startup timer no longer
\* pending.
C13_StartupReadFailure ==
    [][\A i \in StartIds :
          ReadGivesUp(i) =>
              /\ state' = "ERROR"
              /\ state # "ERROR" => Emitted = <<StateChanged(state, "ERROR")>>
              /\ starts'[i].timer = NoTimer
              /\ starts'[i].returned /\ starts'[i].ncb = 1
              /\ starts'[i].result.kind \notin {"ok", "none"}
              /\ StartCompletes(i) =>
                    starts'[i].result =
                        IF gdb_eof' /\ ~gdb_eof
                        THEN Failure("SpawnFailed", MSG.STARTUP_EXITED)
                        ELSE GLibError
      ]_vars

\* The subprocess exited during the startup and the start failed with
\* SpawnFailed.
C13_Witness ==
    \E i \in StartIds :
        /\ starts[i].result = Failure("SpawnFailed", MSG.STARTUP_EXITED)
        /\ starts[i].phase = "done" /\ starts[i].timer = NoTimer
        /\ gdb_eof /\ state = "ERROR"

\* C14: when the startup timer fires before a Prompt line was read, the
\* start completes with Timeout and the state becomes Error.
C14_StartupTimeout ==
    [][\A i \in StartIds :
          (starts[i].timer = 0 /\ starts'[i].timer = NoTimer
               /\ starts[i].phase = "read" /\ starts'[i].phase = "read") =>
              /\ starts'[i].result = Failure("Timeout", MSG.STARTUP_TIMED_OUT)
              /\ state' = "ERROR"
      ]_vars

(***************************************************************************)
(* The end of a session, under an event loop that keeps running.           *)
(***************************************************************************)
TermTimerFires ==
    \/ \E i \in 1..Len(starts) : on_start_timeout(i)
    \/ \E k \in 1..Len(terms) : on_terminate_timeout(k)

FairTermSpec == TermSpec /\ WF_vars(Tick) /\ WF_vars(TermTimerFires)

\* The step is a call of gdb_session_terminate.
TerminateCall == budget'.terms = budget.terms - 1

\* The step is the callback of a terminate timer.
TerminateTimerFired == Len(terms') = Len(terms) - 1

\* The step releases the handles of the session.
Releases == process # NULL /\ process' = NULL

\* C15: gdb_session_terminate on a session with a live subprocess writes
\* quit to its stdin and schedules the force-exit timer of 500 ms, leaving
\* the state; when the timer fires on the live session the subprocess has
\* exited or is killed, the reader, stdin and process handles are released
\* and the state is Terminated; and the session eventually is Terminated.
C15_TerminateReachesTerminated ==
    /\ [][/\ (TerminateCall /\ process # NULL) =>
               /\ state \in {"STARTING", "READY", "STOPPED", "ERROR"}
               /\ terms' = Append(terms, TERMINATE_TIMEOUT_MS)
               /\ state' = state /\ process' = process
               /\ (stdin_pipe # NULL /\ gdb_run = "running") =>
                      gdb_stdin' = Append(gdb_stdin, QUIT)
          /\ (TerminateTimerFired /\ process # NULL) =>
               /\ state' = "TERMINATED"
               /\ process' = NULL /\ stdin_pipe' = NULL
               /\ stdout_reader' = NULL
               /\ gdb_run' = "exited"
               /\ Emitted = <<StateChanged(state, "TERMINATED"), Terminated>>
          ]_vars
    /\ (process # NULL /\ terms # <<>>) ~>
           (state = "TERMINATED" /\ process = NULL)

\* A Ready session was terminated, and its subprocess, which had not taken
\* the quit, was killed when the timer fired.
C15_Witness ==
    /\ state = "TERMINATED" /\ process = NULL /\ gdb_run = "exited"
    /\ gdb_stdin = <<QUIT>>
    /\ emitted = <<StateChanged("DISCONNECTED", "STARTING"),
                   StateChanged("STARTING", "READY"), Ready,
                   StateChanged("READY", "TERMINATED"), Terminated>>

\* C16: gdb_session_terminate is idempotent.  A call on a session without
\* subprocess (never started, or released already) changes nothing; a
\* further call on a live session only schedules a further timer, and a
\* timer that fires after the release changes nothing: the handles are
\* released once, with the state Terminated, and terminated is emitted
\* exactly once.
C16_TerminateIdempotent ==
    [][/\ (TerminateCall /\ process = NULL) =>
            UNCHANGED <<state, timeout_ms, process, stdin_pipe, stdout_reader,
                        emitted, starts, tasks, terms, gdb_vars>>
       /\ (TerminateCall /\ process # NULL) =>
            UNCHANGED <<state, timeout_ms, process, stdin_pipe, stdout_reader,
                        emitted, starts, tasks, gdb_run>>
       /\ (TerminateTimerFired /\ process = NULL) =>
            UNCHANGED <<state, timeout_ms, process, stdin_pipe, stdout_reader,
                        emitted, starts, tasks, gdb_vars>>
       /\ Releases <=> (Count(emitted', "terminated") = 1
                           /\ Count(emitted, "terminated") = 0)
       /\ Releases => state' = "TERMINATED"
       /\ Count(emitted', "terminated") <= 1
      ]_vars

\* gdb_session_terminate was called twice on the live session, and both
\* timers have fired.
C16_Witness ==
    /\ budget.terms <= MaxTermCalls - 2
    /\ terms = <<>>
    /\ state = "TERMINATED" /\ process = NULL
    /\ gdb_stdin = <<QUIT, QUIT>>
    /\ Count(emitted, "terminated") = 1

\* The transitions of the state the session is specified to make.
AllowedTransition(old_state, new_state) ==
    \/ <<old_state, new_state>> \in
           {<<"DISCONNECTED", "STARTING">>, <<"STARTING", "READY">>,
            <<"STARTING", "ERROR">>, <<"READY", "RUNNING">>,
            <<"RUNNING", "READY">>, <<"RUNNING", "STOPPED">>,
            <<"STOPPED", "RUNNING">>, <<"STOPPED", "READY">>,
            <<"READY", "STOPPED">>}
    \/ new_state = "TERMINATED"
    \/ new_state = "ERROR"

IsStateChanged(e) == e.signal = "state-changed"

\* C17: every change of the state is an allowed transition, and is
\* published once as state-changed(old, new) with old # new, in the order
\* of the changes: the state-changed emissions of a step lead from the
\* state before it to the state after it.
C17_AllowedTransitionsPublished ==
    [][LET ch == SelectSeq(Emitted, IsStateChanged)
       IN  /\ Len(ch) = 0 => state' = state
           /\ Len(ch) > 0 => (ch[1].old = state /\ ch[Len(ch)].new = state')
           /\ \A k \in 1..Len(ch) :
                 /\ ch[k].old # ch[k].new
                 /\ AllowedTransition(ch[k].old, ch[k].new)
                 /\ k > 1 => ch[k].old = ch[k - 1].new
      ]_vars

\* C18: a *stopped line read by a command invokes the stopped hook once,
\* at the step that reads it.
C18_StoppedPublished ==
    [][\A c \in TaskIds :
          (tasks[c].kind = "exec" /\ ReadsLine(c)
               /\ LastLine(tasks'[c].output) = LINE.STOPPED) =>
              /\ Len(Emitted) = 1
              /\ Emitted[1].signal = "stopped"
      ]_vars

(***************************************************************************)
(* The timers of a command.                                                *)
(***************************************************************************)
\* The step runs on_read_delay_complete of command c.
DelayTimerRuns(c) == tasks[c].delay = 0 /\ tasks'[c].delay = NoTimer

\* The step runs on_execute_timeout of command c.
TimeoutTimerRuns(c) ==
    /\ tasks[c].timer = 0
    /\ ~crashed
    /\ crashed' \/ tasks'[c].timer = NoTimer

\* The step issues a read of the subprocess output for command c.
IssuesRead(c) ==
    /\ tasks'[c].phase = "read"
    /\ tasks[c].phase # "read" \/ Len(tasks'[c].output) > Len(tasks[c].output)

\* C29: when the completion of a gdb_session_execute_async is delivered,
\* its timeout timer and its settle-delay timer are no longer pending, and
\* after the completion no timer callback of the command runs and no read
\* is issued for it.
C29_TimersReleasedAtCompletion ==
    [][\A c \in TaskIds :
          tasks[c].kind = "exec" =>
              /\ (~tasks[c].returned /\ tasks'[c].returned) =>
                     /\ tasks'[c].timer = NoTimer
                     /\ tasks'[c].delay = NoTimer
              /\ tasks[c].returned =>
                     /\ ~DelayTimerRuns(c)
                     /\ ~TimeoutTimerRuns(c)
                     /\ ~IssuesRead(c)
      ]_vars

\* The value of a text of decimal digits.
RECURSIVE DecimalValue(_)
DecimalValue(s) ==
    IF s = <<>> THEN 0
    ELSE 10 * DecimalValue(SubSeq(s, 1, Len(s) - 1)) + DigitValue(s[Len(s)])

\* The settle delay the value of the environment variable asks for: its
\* value if it is a positive integer (decimal digits, after "+" or not), the
\* default if it is not set, not a number, zero or negative.
ConfiguredDelay(env) ==
    LET digits == IF env # <<>> /\ Head(env) = "+" THEN Tail(env) ELSE env
    IN  IF /\ env # NULL_STR
           /\ digits # <<>>
           /\ \A k \in 1..Len(digits) : g_ascii_isdigit(digits[k])
           /\ DecimalValue(digits) > 0
        THEN DecimalValue(digits)
        ELSE DEFAULT_POST_COMMAND_DELAY_MS

\* C28: the settle delay on_command_written schedules is the value of
\* GDB_MCP_POST_COMMAND_DELAY_MS when that is a positive integer, and the
\* default 2000 ms when it is unset, not a number, zero or negative.
C28_SettleDelayFromEnvironment ==
    [][\A c \in TaskIds :
          (tasks[c].phase = "write" /\ tasks'[c].phase = "delay") =>
              tasks'[c].delay = ConfiguredDelay(env_delay)
      ]_vars

\* C30: the timeout timer of a gdb_session_execute_mi_async never fires
\* after the command has completed.
C30_MiTimerNeverFiresAfterCompletion ==
    [][\A c \in TaskIds :
          (tasks[c].kind = "mi" /\ tasks[c].returned) => ~TimeoutTimerRuns(c)
      ]_vars

(***************************************************************************)
(* The session manager.                                                    *)
(***************************************************************************)
\* The step is a call of the manager, or a removal of its terminate_all.
MgrCall == mgr_calls'.n = mgr_calls.n + 1

CreatedIds(calls) == {calls.created[k].id : k \in 1..Len(calls.created)}

\* Every session created and not removed is found under its id, and no
\* other id finds a session.
RoundTrip ==
    /\ \A k \in 1..Len(mgr_calls.created) :
          LET c == mgr_calls.created[k]
          IN  g_hash_table_lookup(manager.sessions, c.id) =
                  IF c.id \in mgr_calls.removed THEN NULL_SESSION
                  ELSE c.session
    /\ DOMAIN manager.sessions \subseteq CreatedIds(mgr_calls)

\* C19: create returns a session under an id no earlier create returned,
\* and from then on the id finds that session until it is removed; get
\* returns the session created under the id if it has not been removed and
\* none otherwise (an id removed, or never created); remove returns true
\* exactly for an id created and not removed, and then the id finds
\* nothing; a remove that returns false changes nothing.
C19_RegistryRoundTrip ==
    [][/\ RoundTrip'
       /\ MgrCall =>
            LET c == mgr_calls'.last
                live == CreatedIds(mgr_calls) \ mgr_calls.removed
            IN  /\ c.op = "create" =>
                      /\ c.ret # NULL_SESSION
                      /\ c.id \notin CreatedIds(mgr_calls)
                      /\ g_hash_table_lookup(manager'.sessions, c.id) = c.ret
                /\ c.op = "get" =>
                      /\ manager' = manager
                      /\ \A k \in 1..Len(mgr_calls.created) :
                            (mgr_calls.created[k].id = c.id /\ c.id \in live) =>
                                c.ret = mgr_calls.created[k].session
                      /\ c.id \notin live => c.ret = NULL_SESSION
                /\ c.op = "remove" =>
                      /\ c.ret = 1 <=> c.id \in live
                      /\ c.ret = 1 =>
                            /\ c.id \notin DOMAIN manager'.sessions
                            /\ DOMAIN manager'.sessions =
                                   (DOMAIN manager.sessions) \ {c.id}
                      /\ c.ret = 0 =>
                            /\ manager' = manager
                            /\ UNCHANGED <<session_vars, terms, gdb_vars>>
      ]_vars

\* Two sessions were created, one was removed, and a get of its id found
\* nothing while the other session is still in the table.
C19_Witness ==
    /\ Len(mgr_calls.created) = 2
    /\ mgr_calls.last.op = "get"
    /\ mgr_calls.last.id \in mgr_calls.removed
    /\ mgr_calls.last.ret = NULL_SESSION
    /\ g_hash_table_size(manager.sessions) = 1

\* C20: while no terminate_all is in progress, the session count is the
\* number of creates minus the number of removes that returned true, and
\* a list just returned has as many sessions.
C20_CountMatchesLiveSessions ==
    manager.session_ids = <<>> =>
        /\ gdb_session_manager_get_session_count =
               Len(mgr_calls.created) - mgr_calls.n_removed
        /\ mgr_calls.last.op = "list" =>
               mgr_calls.last.ret = gdb_session_manager_get_session_count

\* Two sessions were created, one was removed, and the list returned the
\* other one.
C20_Witness ==
    /\ Len(mgr_calls.created) = 2
    /\ mgr_calls.n_removed = 1
    /\ mgr_calls.last.op = "list"
    /\ mgr_calls.last.ret = 1
    /\ manager.session_ids = <<>>

\* The number after the last "-" of a session id (the whole id without one).
CounterPart(id) ==
    LET dashes == {k \in 1..Len(id) : id[k] = "-"}
        from == IF dashes = {} THEN 1
                ELSE 1 + CHOOSE k \in dashes : \A j \in dashes : j <= k
    IN  DecimalValue(SubSeq(id, from, Len(id)))

\* C21: no two create calls return the same id, an id already removed
\* included, whatever the clock says: the counter part of the ids grows
\* strictly from one create to the next, and the manager's counter is
\* above all of them.
C21_IdsUniqueNeverReused ==
    \A j \in 1..Len(mgr_calls.created) :
        /\ \A k \in 1..Len(mgr_calls.created) :
              k # j => mgr_calls.created[k].id # mgr_calls.created[j].id
        /\ \A k \in 1..(j - 1) :
              CounterPart(mgr_calls.created[k].id)
                  < CounterPart(mgr_calls.created[j].id)
        /\ CounterPart(mgr_calls.created[j].id) < manager.session_counter

\* A session was created and removed, and a create that read the same
\* clock value has just returned another id.
C21_Witness ==
    /\ Len(mgr_calls.created) = 2
    /\ mgr_calls.last.op = "create"
    /\ mgr_calls.created[1].id \in mgr_calls.removed
    /\ SubSeq(mgr_calls.created[1].id, 1, 1)
           = SubSeq(mgr_calls.created[2].id, 1, 1)
    /\ mgr_calls.last.id = mgr_calls.created[2].id

(***************************************************************************)
(* The session manager, under an event loop that keeps running.            *)
(***************************************************************************)
FairRegSpec ==
    /\ RegLifeInit /\ [][RegLifeNext]_vars
    /\ WF_vars(Tick) /\ WF_vars(TermTimerFires)

\* The step takes the id out of the table.
LeavesMap(id) ==
    id \in DOMAIN manager.sessions /\ id \notin DOMAIN manager'.sessions

\* The first session left the table.
FirstSessionRemoved ==
    \E k \in 1..Len(mgr_calls.created) :
        /\ mgr_calls.created[k].session = FirstSession
        /\ mgr_calls.created[k].id \in mgr_calls.removed

\* C22: the step that takes a session with a live subprocess out of the
\* table is also the one that terminates it: quit is written to a
\* subprocess that runs and the force-exit timer of 500 ms is scheduled;
\* and the subprocess of a removed session eventually does not run.
C22_RemovedSessionIsTerminated ==
    /\ [][\A k \in 1..Len(mgr_calls.created) :
             (/\ LeavesMap(mgr_calls.created[k].id)
              /\ mgr_calls.created[k].session = FirstSession
              /\ process # NULL) =>
                 /\ terms' = Append(terms, TERMINATE_TIMEOUT_MS)
                 /\ (stdin_pipe # NULL /\ gdb_run = "running") =>
                        gdb_stdin' = Append(gdb_stdin, QUIT)
          ]_vars
    /\ (FirstSessionRemoved /\ process # NULL /\ terms # <<>>) ~>
           (process = NULL /\ gdb_run # "running")

\* The session was removed while its subprocess ran, quit was written, and
\* the force-exit timer has ended the subprocess.
C22_Witness ==
    /\ FirstSessionRemoved
    /\ QUIT \in {gdb_stdin[k] : k \in 1..Len(gdb_stdin)}
    /\ terms = <<>>
    /\ process = NULL
    /\ gdb_run = "exited"
    /\ state = "TERMINATED"

(***************************************************************************)
(* The signals of the session manager.                                     *)
(***************************************************************************)
\* How often the signal was emitted for the id, and how many calls have
\* still to emit it.
SignalCount(calls, signal, id) ==
    CopiesIn([signal |-> signal, id |-> id], calls.signals)

PendingCount(calls, signal, id) ==
    Cardinality({e \in calls.emit : e.signal = signal /\ e.id = id})

\* The step is the return of terminate_all: of its call if the table was
\* empty, of its last remove_session otherwise.
TerminateAllReturns ==
    /\ \/ InTerminateAll
       \/ /\ mgr_calls'.calls_left = mgr_calls.calls_left - 1
          /\ mgr_calls'.last.op = "terminate_all"
    /\ ~InTerminateAll'

\* C23: when terminate_all returns and no session was created since it
\* collected the ids, the table is empty (count 0, empty list), every
\* session that was in the table has been removed by a remove_session
\* (which terminates what it removes), and session-removed was emitted
\* once for each of them, or is being emitted by a concurrent remove that
\* took the session first.
C23_TerminateAllEmptiesRegistry ==
    [][(/\ TerminateAllReturns
        /\ Len(mgr_calls'.created) = mgr_calls'.all.created) =>
           /\ g_hash_table_size(manager'.sessions) = 0
           /\ ListOf(manager'.sessions) = <<>>
           /\ mgr_calls'.all.present \subseteq mgr_calls'.removed
           /\ \A id \in mgr_calls'.all.present :
                 /\ SignalCount(mgr_calls', "session-removed", id)
                        + PendingCount(mgr_calls', "session-removed", id) = 1
                 /\ \A e \in mgr_calls'.emit : e.by # "all"
      ]_vars

\* terminate_all has returned after it removed two sessions and emitted
\* session-removed for both.
C23_Witness ==
    /\ mgr_calls.last.op = "terminate_all"
    /\ ~InTerminateAll
    /\ Cardinality(mgr_calls.all.present) = 2
    /\ mgr_calls.n_removed = 2
    /\ g_hash_table_size(manager.sessions) = 0
    /\ \A id \in mgr_calls.all.present :
          SignalCount(mgr_calls, "session-removed", id) = 1

\* The step emits the signal e: its handlers run.
Emits(e) == e \in mgr_calls.emit /\ e \notin mgr_calls'.emit

\* The session create_session returned under the id.
SessionOf(id) ==
    LET k == CHOOSE k \in 1..Len(mgr_calls.created) :
                 mgr_calls.created[k].id = id
    IN  mgr_calls.created[k].session

\* Each signal is emitted once per call that has to emit it: session-added
\* per create, session-removed per remove that returned TRUE, and none for
\* a remove that returned FALSE.
SignalsOncePerCall ==
    \A id \in IdChoices :
        /\ SignalCount(mgr_calls, "session-added", id)
               + PendingCount(mgr_calls, "session-added", id)
               = IF id \in CreatedIds(mgr_calls) THEN 1 ELSE 0
        /\ SignalCount(mgr_calls, "session-removed", id)
               + PendingCount(mgr_calls, "session-removed", id)
               = IF id \in mgr_calls.removed THEN 1 ELSE 0

\* C24 as stated: session-added is emitted once per create and
\* session-removed once per remove that returned TRUE; each is emitted in a
\* step after the one that changed the table, with the mutex free; a get of
\* the id in a handler of session-added returns the session, and in a
\* handler of session-removed returns NULL.
C24_HandlersSeeTheMutation ==
    /\ []SignalsOncePerCall
    /\ [][\A e \in mgr_calls.emit :
             Emits(e) =>
                 /\ manager' = manager
                 /\ e.signal = "session-added" =>
                        /\ e.id \in CreatedIds(mgr_calls)
                        /\ g_hash_table_lookup(manager.sessions, e.id)
                               = SessionOf(e.id)
                 /\ e.signal = "session-removed" =>
                        /\ e.id \in mgr_calls.removed
                        /\ g_hash_table_lookup(manager.sessions, e.id)
                               = NULL_SESSION
          ]_vars

\* C24, amended: as above, but a get of the id in a handler of
\* session-added returns the session unless another thread has removed it
\* since create_session unlocked the mutex, and then returns NULL.
C24_HandlersSeeTheMutationUnlessRemoved ==
    /\ []SignalsOncePerCall
    /\ [][\A e \in mgr_calls.emit :
             Emits(e) =>
                 /\ manager' = manager
                 /\ e.signal = "session-added" =>
                        /\ e.id \in CreatedIds(mgr_calls)
                        /\ g_hash_table_lookup(manager.sessions, e.id)
                               = IF e.id \in mgr_calls.removed
                                 THEN NULL_SESSION ELSE SessionOf(e.id)
                 /\ e.signal = "session-removed" =>
                        /\ e.id \in mgr_calls.removed
                        /\ g_hash_table_lookup(manager.sessions, e.id)
                               = NULL_SESSION
          ]_vars

\* Both signals of a session were emitted once, and a remove of its id
\* that came later returned FALSE and has no signal to emit.
C24_Witness ==
    /\ mgr_calls.last.op = "remove"
    /\ mgr_calls.last.ret = 0
    /\ mgr_calls.last.id \in mgr_calls.removed
    /\ mgr_calls.emit = {}
    /\ SignalCount(mgr_calls, "session-added", mgr_calls.last.id) = 1
    /\ SignalCount(mgr_calls, "session-removed", mgr_calls.last.id) = 1

(***************************************************************************)
(* The tool handlers.                                                      *)
(***************************************************************************)
\* The step is the return of the tool that waited in the main loop pc.
LoopReturns(pc) == mgr_calls.tool.pc = pc /\ mgr_calls'.tool.pc = "idle"

\* The Timeout gdb_tools_execute_command_sync makes for the command c.
SyncTimeout(c) ==
    Failure("Timeout", MSG.TIMED_OUT \o Literal(": ") \o Decimal(c))

\* C25 as stated: gdb_tools_execute_command_sync returns an error of kind
\* Timeout exactly when its loop ended with neither an output nor an error
\* taken from the task, and returns the result of the task otherwise.
C25_SyncTimeoutIffNothingRecorded ==
    [][LoopReturns("command") =>
          /\ mgr_calls'.tool.sync.kind = "Timeout"
                 <=> ~tasks[Len(tasks)].returned
          /\ tasks[Len(tasks)].returned =>
                 mgr_calls'.tool.sync = tasks[Len(tasks)].result
      ]_vars

\* C25, amended: gdb_tools_execute_command_sync returns its own Timeout,
\* which names the command, exactly when its loop ended with neither an
\* output nor an error taken from the task; otherwise it returns the
\* result of the task unchanged, a Timeout of the pipeline and a
\* SessionNotReady of the admission included.
C25_SyncPropagatesTheResult ==
    [][LoopReturns("command") =>
          /\ mgr_calls'.tool.sync = SyncTimeout(Len(tasks))
                 <=> ~tasks[Len(tasks)].returned
          /\ tasks[Len(tasks)].returned =>
                 /\ mgr_calls'.tool.sync = tasks[Len(tasks)].result
                 /\ mgr_calls'.tool.sync.kind # "none"
          /\ mgr_calls'.tool.isError <=> mgr_calls'.tool.sync.kind # "ok"
      ]_vars

\* A command on a session that is not Ready has returned the
\* SessionNotReady of the admission.
C25_Witness ==
    /\ mgr_calls.tool.pc = "idle"
    /\ tasks # <<>>
    /\ tasks[Len(tasks)].phase = "rejected"
    /\ mgr_calls.tool.sync = Failure("SessionNotReady", MSG.NOT_READY)
    /\ mgr_calls.tool.isError

\* The step is a call of a tool with the sessionId id.
ToolCalled(id) ==
    /\ mgr_calls.tool.pc = "idle"
    /\ mgr_calls'.calls_left = mgr_calls.calls_left - 1
    /\ mgr_calls'.tool.session_id = id

\* C26: a tool called with no sessionId, or with one that is not in the
\* table, returns at once a result with isError set; no command is
\* submitted or written, and the table, the counter, the signals and
\* the session with its subprocess and timers are as before.
C26_UnknownSessionIsAnError ==
    [][\A id \in IdChoices :
          (ToolCalled(id)
               /\ (id = NULL_STR \/ id \notin DOMAIN manager.sessions)) =>
              /\ mgr_calls'.tool.pc = "idle"
              /\ mgr_calls'.tool.n = mgr_calls.tool.n + 1
              /\ mgr_calls'.tool.isError
              /\ mgr_calls'.signals = mgr_calls.signals
              /\ mgr_calls'.removed = mgr_calls.removed
              /\ UNCHANGED <<manager, session_vars, starts, tasks, terms,
                             gdb_vars>>
      ]_vars

\* With a started session in the table, a tool was called with an id that
\* is not in the table and returned an error.
C26_Witness ==
    /\ mgr_calls.tool.pc = "idle"
    /\ mgr_calls.last.op \in {"get", "remove"}
    /\ mgr_calls.last.id # NULL_STR
    /\ mgr_calls.last.id \notin DOMAIN manager.sessions
    /\ mgr_calls.tool.session_id = mgr_calls.last.id
    /\ mgr_calls.tool.isError
    /\ state = "READY"
    /\ g_hash_table_size(manager.sessions) > 0

\* C27: gdb_start that succeeded has added one session to the table, the
\* one whose id it returns, and that session is Ready; gdb_start that
\* failed (the start failed, or the guard timer ended the loop) returns a
\* result with isError set and leaves in the table the ids that were in it
\* when it was called.
C27_StartAddsOneReadySession ==
    [][LoopReturns("start") =>
          /\ mgr_calls'.tool.isError <=>
                 ~(/\ starts[Len(starts)].returned
                   /\ starts[Len(starts)].result.kind = "ok")
          /\ ~mgr_calls'.tool.isError =>
                 /\ mgr_calls.tool.session_id \notin mgr_calls.tool.before
                 /\ DOMAIN manager'.sessions =
                        mgr_calls.tool.before \cup {mgr_calls.tool.session_id}
                 /\ g_hash_table_lookup(manager'.sessions,
                                        mgr_calls.tool.session_id)
                        = FirstSession
                 /\ state' = "READY"
          /\ mgr_calls'.tool.isError =>
                 DOMAIN manager'.sessions = mgr_calls.tool.before
      ]_vars

\* gdb_start failed after its subprocess had started, with another
\* session in the table: that one is still there, the new one is not.
C27_Witness ==
    /\ mgr_calls.tool.pc = "idle"
    /\ mgr_calls.last.op = "remove"
    /\ mgr_calls.tool.isError
    /\ mgr_calls.tool.sync.kind \notin {"ok", "none"}
    /\ starts # <<>>
    /\ mgr_calls.tool.session_id \in mgr_calls.removed
    /\ terms # <<>>
    /\ DOMAIN manager.sessions = mgr_calls.tool.before
    /\ mgr_calls.tool.before # {}

(***************************************************************************)
(* The phases of a command.                                                *)
(***************************************************************************)
\* C31: a gdb_session_execute_async goes from its write to its settle delay
\* to its first read.  The first read of a command is issued by the
\* callback of its settle-delay timer, when that timer is due; the timer
\* is scheduled, for the whole configured delay, by the completion of a
\* successful write and by nothing else, and only the passing of time
\* shortens it.  A write that failed ends the command: no settle delay is
\* scheduled and no read is issued, then or later.
C31_WriteThenDelayThenRead ==
    [][\A c \in TaskIds :
          tasks[c].kind = "exec" =>
              /\ (tasks[c].phase # "read" /\ tasks'[c].phase = "read") =>
                     /\ tasks[c].phase = "delay"
                     /\ tasks[c].delay = 0
                     /\ Len(tasks[c].output) = 0
              /\ (tasks[c].phase # "delay" /\ tasks'[c].phase = "delay") =>
                     /\ tasks[c].phase = "write"
                     /\ c \in {gdb_stdin'[k] : k \in 1..Len(gdb_stdin')}
                     /\ tasks'[c].delay = ConfiguredDelay(env_delay)
              /\ tasks[c].phase # "delay" => tasks[c].delay = NoTimer
              /\ tasks[c].delay > 0 =>
                     tasks'[c].delay \in {tasks[c].delay,
                                          tasks[c].delay - TickMs}
              /\ (tasks[c].phase = "write" /\ tasks'[c].phase = "done") =>
                     /\ tasks'[c].delay = NoTimer
                     /\ tasks'[c].output = <<>>
              /\ tasks[c].phase = "done" =>
                     /\ tasks'[c].phase = "done"
                     /\ tasks'[c].delay = NoTimer
      ]_vars

\* A command is reading, not yet completed, after its settle delay of
\* 500 ms.
C31_Witness ==
    \E c \in TaskIds :
        /\ tasks[c].kind = "exec"
        /\ tasks[c].phase = "read"
        /\ tasks[c].delay = NoTimer
        /\ ~tasks[c].returned
        /\ env_delay = ENV_500

(***************************************************************************)
(* The mutex of the manager.                                               *)
(***************************************************************************)
\* The step is the critical section of an operation of the manager: what
\* it does between g_mutex_lock and g_mutex_unlock.
HoldsMutex ==
    \/ mgr_calls'.n = mgr_calls.n + 1
    \/ manager'.sessions # manager.sessions
    \/ manager'.session_ids # manager.session_ids

\* The step writes to the stdin of the subprocess of the session.
WritesToSubprocess == gdb_stdin' # gdb_stdin /\ Len(gdb_stdin') > Len(gdb_stdin)

\* C32: the table is read and changed only with the mutex held, and no
\* operation of the manager writes to the subprocess of a session while it
\* holds the mutex.
C32_NoSubprocessIoUnderTheMutex ==
    [][/\ (manager'.sessions # manager.sessions) => HoldsMutex
       /\ HoldsMutex => ~WritesToSubprocess
      ]_vars

(***************************************************************************)
(* The references on the session.                                          *)
(***************************************************************************)
\* C33: each pending terminate timer holds a reference of its own on the
\* session, from the step that schedules it to the step of its callback:
\* the reference count is the references of the owners plus one for each
\* pending timer.  So the session is not finalized (its count is not 0)
\* while a timer is pending, whatever the owners have dropped, and the
\* callback runs on a live session and drops one reference.
C33_TimerHoldsTheSession ==
    /\ [](/\ object.ref_count = object.owners + Len(terms)
          /\ terms # <<>> => object.ref_count > 0)
    /\ [][TerminateTimerFired =>
              /\ object.ref_count > 0
              /\ object'.ref_count = object.ref_count - 1
              /\ object'.owners = object.owners
         ]_vars

\* Every owner has dropped its reference on a started session, the last
\* without a call of gdb_session_terminate, and the terminate timer that
\* gdb_session_dispose scheduled is due.
C33_Witness ==
    /\ object.owners = 0
    /\ object.ref_count = 1
    /\ terms = <<0>>
    /\ process # NULL
    /\ state = "READY"
    /\ budget.terms = MaxTerminate

(***************************************************************************)
(* The text of a Stream record.                                            *)
(***************************************************************************)
\* The text between the quotes of a c-string of the MI grammar, from index i:
\* no quote but after a backslash, and a character after every backslash.
RECURSIVE IsCStringBody(_, _)
IsCStringBody(s, i) ==
    IF i > Len(s) THEN TRUE
    ELSE IF s[i] = "\\" THEN i + 1 <= Len(s) /\ IsCStringBody(s, i + 2)
    ELSE s[i] # "\"" /\ IsCStringBody(s, i + 1)

\* C34: for every quoted payload, the text of the Stream record that
\* gdb_mi_parser_parse_line makes is what gdb_mi_parser_unescape_string makes
\* of the same payload, and in that text an escape that is not one of \n, \t,
\* \r, \\, \" and \0 is kept as the backslash followed by its character.
C34_StreamTextIsTheUnescapedPayload ==
    (/\ parser.record.ok /\ parser.content # NULL_STR
     /\ IsCStringBody(SubSeq(parser.line, 3, Len(parser.line) - 1), 1)) =>
        /\ parser.record.type \in {"CONSOLE", "TARGET", "LOG"}
        /\ parser.record.stream_content = parser.content

(***************************************************************************)
(* The completion of a start.                                              *)
(***************************************************************************)
\* C35: a start on a Disconnected session whose subprocess was spawned is
\* completed at most once, whatever the order of its timeout, its line
\* reads, the end of the stream and a read error; and once it has completed,
\* no later event of that start changes the state of the session or
\* completes it again.
C35_StartCompletesOnce ==
    /\ [](\A i \in 1..Len(starts) : starts[i].ncb <= 1)
    /\ [][\A i \in 1..Len(starts) :
              (/\ starts[i].phase # "rejected"
               /\ starts[i].returned
               /\ starts'[i] # starts[i]) =>
                  /\ state' = state
                  /\ starts'[i].ncb = starts[i].ncb]_vars

(***************************************************************************)
(* The stored state and the command pipelines.                             *)
(***************************************************************************)
\* The step is an event of a command: its admission, its write, its settle
\* delay, a read of its response or its timeout.
CommandEvent ==
    \/ Len(tasks') # Len(tasks)
    \/ \E c \in 1..Len(tasks) :
          \/ tasks'[c].phase # tasks[c].phase
          \/ tasks'[c].output # tasks[c].output
          \/ tasks'[c].returned # tasks[c].returned

\* C36: no event of gdb_session_execute_async or gdb_session_execute_mi_async
\* changes the stored state, whatever line is read and however the command
\* completes; the state is changed only by a start, to Starting, Ready or
\* Error, and by the cleanup of terminate, to Terminated; it is never Running
\* or Stopped.
C36_ExecuteLeavesTheState ==
    /\ [](state \notin {"RUNNING", "STOPPED"})
    /\ [][/\ CommandEvent => state' = state
          /\ state' # state =>
                \/ /\ starts' # starts
                   /\ state' \in {"STARTING", "READY", "ERROR"}
                \/ /\ Releases
                   /\ state' = "TERMINATED"]_vars

C36_Witness ==
    /\ state = "READY"
    /\ \E c \in 1..Len(tasks) :
          /\ tasks[c].returned
          /\ tasks[c].saw_running
          /\ tasks[c].result.kind = "Timeout"

(***************************************************************************)
(* The window between a terminate and its timer.                           *)
(***************************************************************************)
\* A terminate timer is pending on a session that still has its subprocess.
TerminateWindow == terms # <<>> /\ process # NULL

\* The step is a submission of a command, which is admitted.
SubmissionAdmitted ==
    /\ Len(tasks') = Len(tasks) + 1
    /\ tasks'[Len(tasks')].phase # "rejected"

\* What gdb_session_terminate does at once, and what stores Terminated.
TerminateIsDeferred ==
    /\ (TerminateCall /\ process # NULL) =>
          /\ state' = state
          /\ Len(terms') = Len(terms) + 1
          /\ terms'[Len(terms')] = TERMINATE_TIMEOUT_MS
    /\ (state' = "TERMINATED" /\ state # "TERMINATED") =>
          /\ TerminateTimerFired
          /\ \E k \in 1..Len(terms) : terms[k] = 0

\* C37 as stated: gdb_session_terminate on a session with a live subprocess
\* leaves the state; the state becomes Terminated only when the callback of
\* the 500 ms timer runs; until then gdb_session_is_ready keeps the value it
\* had before the terminate, and an execute submitted on a Ready session in
\* that window is admitted.
C37_ReadinessKeptUntilTheTimer ==
    [][/\ TerminateIsDeferred
       /\ (TerminateWindow /\ ~TerminateTimerFired) =>
             gdb_session_is_ready' = gdb_session_is_ready
       /\ (TerminateWindow /\ state = "READY" /\ Len(tasks') = Len(tasks) + 1)
             => SubmissionAdmitted]_vars

\* C37, amended: gdb_session_terminate on a session with a live subprocess
\* leaves the state; the state becomes Terminated only when the callback of
\* the 500 ms timer runs; until then a session that was Ready stays Ready, so
\* an execute submitted in that window is admitted, and a session that was
\* not Ready changes its readiness only by an event of its start.
C37_ReadyKeptUntilTheTimer ==
    [][/\ TerminateIsDeferred
       /\ (TerminateWindow /\ ~TerminateTimerFired /\ gdb_session_is_ready) =>
             gdb_session_is_ready'
       /\ (TerminateWindow /\ ~TerminateTimerFired /\ ~gdb_session_is_ready
              /\ gdb_session_is_ready') => starts' # starts
       /\ (TerminateWindow /\ state = "READY" /\ Len(tasks') = Len(tasks) + 1)
             => SubmissionAdmitted]_vars

C37_Witness ==
    /\ state = "READY"
    /\ process # NULL
    /\ terms = <<0>>
    /\ \E c \in 1..Len(tasks) :
          /\ tasks[c].phase = "write"
          /\ tasks[c].timer = 1000

(***************************************************************************)
(* A command in flight at a terminate, under an event loop that keeps      *)
(* running.                                                                *)
(***************************************************************************)
FairCmdSpec ==
    /\ CmdSpec
    /\ WF_vars(Tick) /\ WF_vars(TimerFires) /\ WF_vars(TermTimerFires)

\* The quit of a terminate is behind command c on the stdin of the
\* subprocess: c had been written, and was in flight, when the terminate
\* was requested.
QuitBehind(c) ==
    /\ \E k \in 1..Len(gdb_stdin) : gdb_stdin[k] = QUIT
    /\ \/ gdb_cur = c
       \/ \E j, k \in 1..Len(gdb_stdin) :
             j < k /\ gdb_stdin[j] = c /\ gdb_stdin[k] = QUIT

\* Every admitted command is completed, and no command more than once.
CompletedOnce ==
    /\ [](\A c \in TaskIds : tasks[c].ncb <= 1)
    /\ \A c \in 1..LifeCmds :
           (Len(tasks) >= c /\ Admitted(tasks[c])) ~>
               (Len(tasks) >= c /\ tasks[c].ncb = 1)

TimeoutWithinDelay == timeout_ms <= get_post_command_delay_ms

\* The command has been written: it is in its settle delay or after it.
Written(t) == t.phase \in {"delay", "read"}

\* C39: the timeout of a command runs from its admission and through its
\* settle delay; on a session whose timeout is at most the settle delay no
\* command completes with a success result, and every admitted command whose
\* write succeeded completes with Timeout, whatever the subprocess writes.
C39_TimeoutBeforeTheFirstRead ==
    /\ [][/\ (Submits /\ gdb_session_is_ready) =>
                tasks'[Len(tasks')].timer = timeout_ms
          /\ \A c \in TaskIds :
                /\ (InFlight(tasks[c]) /\ tasks[c].phase = "write"
                       /\ tasks'[c].phase = "delay") =>
                       /\ tasks'[c].timer = tasks[c].timer
                       /\ tasks'[c].delay = get_post_command_delay_ms
                /\ (TimeoutWithinDelay /\ InFlight(tasks[c])
                       /\ Written(tasks[c]) /\ tasks'[c].returned) =>
                       /\ tasks'[c].result = Failure("Timeout", MSG.TIMED_OUT)
                       /\ tasks'[c].output = <<>>
         ]_vars
    /\ [](TimeoutWithinDelay =>
             \A c \in TaskIds : tasks[c].result.kind # "ok")
    /\ \A c \in 1..LifeCmds :
           (TimeoutWithinDelay /\ Len(tasks) >= c /\ Written(tasks[c])) ~>
               (Len(tasks) >= c
                    /\ tasks[c].result = Failure("Timeout", MSG.TIMED_OUT))

\* The timeout equals the settle delay: both were due at once, the settle
\* delay started the read, and the timeout completed the command before
\* the read returned what the subprocess had written.
C39_Witness ==
    /\ timeout_ms = get_post_command_delay_ms
    /\ gdb_cur = 1 /\ gdb_run = "running" /\ ~gdb_eof
    /\ \E c \in TaskIds :
          /\ tasks[c].phase = "read"
          /\ tasks[c].result = Failure("Timeout", MSG.TIMED_OUT)

(***************************************************************************)
(* The flags of the read loop.                                             *)
(***************************************************************************)
\* A line of the output, up to index n, begins with one of the prefixes.
SawPrefix(output, n, prefixes) ==
    \E k \in 1..n : \E prefix \in prefixes :
        g_str_has_prefix(output[k].text, prefix)

\* C40: within one command saw_running and saw_stopped are set by the lines
\* read and never cleared, in whatever order the lines come; a prompt or
\* ^exit line read after some *stopped line of the same command completes
\* the command, also when a ^running or *running line was read after that
\* *stopped line.
C40_StickyFlags ==
    /\ [](\A c \in TaskIds :
             /\ tasks[c].saw_running =
                    SawPrefix(tasks[c].output, Len(tasks[c].output),
                              {PREFIX.HAT_running, PREFIX.STAR_running})
             /\ tasks[c].saw_stopped =
                    SawPrefix(tasks[c].output, Len(tasks[c].output),
                              {PREFIX.STAR_stopped}))
    /\ [][\A c \in TaskIds :
              /\ tasks[c].saw_running => tasks'[c].saw_running
              /\ tasks[c].saw_stopped => tasks'[c].saw_stopped
              /\ (/\ InFlight(tasks[c]) /\ ReadsLine(c)
                  /\ ExecuteLineCompletesAtOnce(tasks[c],
                         tasks'[c].output[Len(tasks'[c].output)].text)
                  /\ SawPrefix(tasks[c].output, Len(tasks[c].output),
                               {PREFIX.STAR_stopped})) =>
                     /\ tasks'[c].returned
                     /\ tasks'[c].complete
                     /\ tasks'[c].phase = "done"]_vars

\* A command completed at the prompt after *stopped and then *running.
C40_Witness ==
    \E c \in TaskIds :
        /\ tasks[c].complete
        /\ tasks[c].result.kind = "ok"
        /\ Len(tasks[c].output) = 3
        /\ tasks[c].output[1].text = LINE.STOPPED
        /\ tasks[c].output[2].text = LINE.ASYNC_RUNNING
        /\ tasks[c].output[3].text = LINE.PROMPT

====
